---- MODULE Spec2Model ----
(***************************************************************************)
(* A model of the bencode decoder of torrentlib (src/src/bencode.rs).     *)
(*                                                                         *)
(* The decoder is a recursive-descent reader over an io::Bytes iterator.  *)
(* The model makes the call stack explicit: `stack` is the sequence of    *)
(* active activations of Benc::new, Benc::list, Benc::dict, Benc::string  *)
(* and Benc::int (bottom first), and every action is one `bytes.next()`   *)
(* together with everything the code does with the byte before the next   *)
(* read.  Bytes are their numeric values, so that the order on Vec<u8> is *)
(* the lexicographic order on sequences of numbers.                       *)
(*                                                                         *)
(* i64 and usize are 64 bits wide in the program.  The model keeps the    *)
(* two's complement shape of both (IntMin = -IntMax - 1, UsizeMax =       *)
(* 2 * IntMax + 1) at a width of IntBits bits.                            *)
(***************************************************************************)
EXTENDS Integers, Sequences, FiniteSets, TLC

VARIABLES input, ioFail, pos, stack, result

(***************************************************************************)
(* The files of a torrent (src/src/files.rs): `file` is a File the caller *)
(* holds, `dir` a Directory with the Files it owns, `last` the last call   *)
(* made on them with what it returned and the filesystem calls it made.   *)
(***************************************************************************)
VARIABLES file, dir, last

dvars == <<input, ioFail, pos, stack, result>>

fvars == <<file, dir, last>>

(***************************************************************************)
(* sanitize_path (src/src/util.rs): `os` is the target the crate is built *)
(* for, `path` the bytes of the last call and `clean` what it returned.   *)
(* Torrent::new (src/src/torrent.rs): `torrent` is what the call returned *)
(* for the decoded tree held in `result`.                                  *)
(***************************************************************************)
VARIABLES os, path, clean, torrent

uvars == <<os, path, clean>>

tvars == <<torrent>>

vars == <<input, ioFail, pos, stack, result, file, dir, last, os, path, clean, torrent>>

(***************************************************************************)
(* Bounds of the model.                                                    *)
(***************************************************************************)
IntBits == 5
MaxRaw == 4
MaxItems == 2
MaxTop == 2
MaxFiles == 1
MaxPath == 5
MaxName == 3
MaxParts == 2
MaxPieces == 2

(***************************************************************************)
(* Bytes the code names.                                                   *)
(***************************************************************************)
NUL == 0
Minus == 45
Zero == 48
One == 49
Nine == 57
Colon == 58
ByteA == 97
ByteB == ByteA + 1
ByteD == 100
ByteE == 101
ByteI == 105
ByteL == 108
Dot == 46
ByteG == 103
ByteH == 104
ByteM == 109
ByteN == 110
ByteT == 116

(***************************************************************************)
(* Keys of the maps read by File::from_dict and by Torrent::new.          *)
(***************************************************************************)
KeyName == <<ByteN, ByteA, ByteM, ByteE>>
KeyLength == <<ByteL, ByteE, ByteN, ByteG, ByteT, ByteH>>

Digits == Zero..Nine

IntMax == 2^(IntBits - 1) - 1
IntMin == -IntMax - 1
UsizeMax == 2 * IntMax + 1

(***************************************************************************)
(* Benc, the value type.  All four variants are records of one shape.     *)
(***************************************************************************)
EmptyMap == <<>>

BString(s) == [t |-> "String", str |-> s, int |-> 0, list |-> <<>>, dict |-> EmptyMap]
BInt(n) == [t |-> "Int", str |-> <<>>, int |-> n, list |-> <<>>, dict |-> EmptyMap]
BList(l) == [t |-> "List", str |-> <<>>, int |-> 0, list |-> l, dict |-> EmptyMap]
BDict(d) == [t |-> "Dict", str |-> <<>>, int |-> 0, list |-> <<>>, dict |-> d]

(***************************************************************************)
(* error::Error.                                                           *)
(***************************************************************************)
NoError == [kind |-> "none", msg |-> "", byte |-> 0]
ErrIo == [kind |-> "Io", msg |-> "", byte |-> 0]
ErrOther(m) == [kind |-> "Other", msg |-> m, byte |-> 0]
ErrDelim(c) == [kind |-> "Delim", msg |-> "", byte |-> c]
ErrEndOfFile == [kind |-> "EndOfFile", msg |-> "", byte |-> 0]

Running == [status |-> "running", ast |-> <<>>, err |-> NoError]
ResOk(ast) == [status |-> "Ok", ast |-> ast, err |-> NoError]
ResErr(e) == [status |-> "Err", ast |-> <<>>, err |-> e]

(***************************************************************************)
(* Activation records.                                                     *)
(***************************************************************************)
Frame(f) == [fn |-> f, at |-> "", ast |-> <<>>, list |-> <<>>, dict |-> EmptyMap,
             prev_key |-> <<>>, key |-> <<>>, len |-> 0, buf |-> <<>>,
             neg |-> 1, num |-> 0]

NewFrame == Frame("new")
ListFrame == Frame("list")
DictFrame == [Frame("dict") EXCEPT !.at = "key"]
StringFrameRawByte(c) == [Frame("string") EXCEPT !.at = "len", !.len = c]
StringFrame(c) == [Frame("string") EXCEPT !.at = "len", !.len = c - Zero]
IntFrame == [Frame("int") EXCEPT !.at = "first"]

Top(stk) == stk[Len(stk)]
Pop(stk) == SubSeq(stk, 1, Len(stk) - 1)
SetTop(stk, f) == [stk EXCEPT ![Len(stk)] = f]

(***************************************************************************)
(* The order of Vec<u8>: a > b, lexicographic on bytes.                   *)
(***************************************************************************)
VecLt(a, b) ==
    \E i \in 1..(Len(b)) :
        /\ \A j \in 1..(i - 1) : j <= Len(a) /\ a[j] = b[j]
        /\ \/ i > Len(a)
           \/ (i <= Len(a) /\ a[i] < b[i])

VecGt(a, b) == VecLt(b, a)

(***************************************************************************)
(* Mutant of I64MulAdd: wrapping arithmetic in place of checked.          *)
(***************************************************************************)
I64MulAddWrapping(num, d) == ((num * 10 + d + IntMax + 1) % (2 * IntMax + 2)) - IntMax - 1

(***************************************************************************)
(* Checked arithmetic of usize and i64.  -1 stands for None.              *)
(***************************************************************************)
UsizeMulAdd(len, d) == IF len * 10 + d > UsizeMax THEN -1 ELSE len * 10 + d

I64MulAdd(num, d) == IF num * 10 + d > IntMax THEN -1 ELSE num * 10 + d

(***************************************************************************)
(* bytes.next()                                                            *)
(***************************************************************************)
ReadByte(inp, p, fail) ==
    IF p < Len(inp) THEN [k |-> "byte", c |-> inp[p + 1]]
    ELSE IF fail THEN [k |-> "err", c |-> 0]
    ELSE [k |-> "none", c |-> 0]

Advance(inp, p) == IF p < Len(inp) THEN p + 1 ELSE p

(***************************************************************************)
(* Mutant of type_of: '-' opens an integer.                               *)
(***************************************************************************)
type_ofMinusIsInt(c) ==
    IF c \in Digits THEN "String"
    ELSE IF c = ByteI \/ c = Minus THEN "Int"
    ELSE IF c = ByteL THEN "List"
    ELSE IF c = ByteD THEN "Dict"
    ELSE "None"

(***************************************************************************)
(* NodeType::type_of                                                       *)
(***************************************************************************)
type_of(c) ==
    IF c \in Digits THEN "String"
    ELSE IF c = ByteI THEN "Int"
    ELSE IF c = ByteL THEN "List"
    ELSE IF c = ByteD THEN "Dict"
    ELSE "None"

(***************************************************************************)
(* Mutant of NewCatch: EndOfFile is returned like any other error.        *)
(***************************************************************************)
NewCatchNoEof(stk, e) ==
    IF e.kind = "Delim" THEN [stack |-> <<stk[1]>>, result |-> Running]
    ELSE [stack |-> <<>>, result |-> [status |-> "Err", ast |-> <<>>, err |-> e]]

(***************************************************************************)
(* The match of Benc::new on an Err that reached it.                      *)
(***************************************************************************)
NewCatch(stk, e) ==
    IF e.kind = "EndOfFile" THEN [stack |-> <<>>, result |-> ResOk(stk[1].ast)]
    ELSE IF e.kind = "Delim" THEN [stack |-> <<stk[1]>>, result |-> Running]
    ELSE [stack |-> <<>>, result |-> ResErr(e)]

(***************************************************************************)
(* HashMap::insert                                                         *)
(***************************************************************************)
Insert(d, k, v) == [x \in (DOMAIN d) \cup {k} |-> IF x = k THEN v ELSE d[x]]

(***************************************************************************)
(* Mutant of KeyOk: n >= prev_key.                                        *)
(***************************************************************************)
KeyOkGe(n, prev_key) == ~VecLt(n, prev_key)

(***************************************************************************)
(* The key test of Benc::dict: n > prev_key.                              *)
(***************************************************************************)
KeyOk(n, prev_key) == VecGt(n, prev_key)

(***************************************************************************)
(* Mutant of Give: one previous key is shared by all dictionaries, so a   *)
(* dictionary that returns leaves its last key to the enclosing one.      *)
(***************************************************************************)
GiveSharedKey(stk, v) ==
    LET f == Top(stk) IN
    IF f.fn = "new" THEN
        [stack |-> SetTop(stk, [f EXCEPT !.ast = Append(f.ast, v)]), result |-> Running]
    ELSE IF f.fn = "list" THEN
        [stack |-> SetTop(stk, [f EXCEPT !.list = Append(f.list, v)]), result |-> Running]
    ELSE IF f.at = "key" THEN
        IF v.t = "String" THEN
            IF KeyOk(v.str, f.prev_key) THEN
                [stack |-> SetTop(stk, [f EXCEPT !.key = v.str, !.prev_key = v.str,
                                                  !.at = "val"]),
                 result |-> Running]
            ELSE NewCatch(stk, ErrOther("Invalid dict bencoding"))
        ELSE NewCatch(stk, ErrOther("Expected BString key for dictionary"))
    ELSE
        [stack |-> SetTop(stk, [f EXCEPT
                       !.dict = Insert(f.dict, f.key, v),
                       !.key = <<>>, !.at = "key",
                       !.prev_key = IF v.t = "Dict" /\ DOMAIN v.dict # {}
                                    THEN CHOOSE k \in DOMAIN v.dict :
                                             \A o \in DOMAIN v.dict \ {k} : VecLt(o, k)
                                    ELSE f.prev_key]),
         result |-> Running]

(***************************************************************************)
(* Mutant of Give: a key of any type is taken, as the empty key when it   *)
(* is no string.                                                           *)
(***************************************************************************)
GiveAnyKey(stk, v) ==
    LET f == Top(stk) IN
    IF f.fn = "new" THEN
        [stack |-> SetTop(stk, [f EXCEPT !.ast = Append(f.ast, v)]), result |-> Running]
    ELSE IF f.fn = "list" THEN
        [stack |-> SetTop(stk, [f EXCEPT !.list = Append(f.list, v)]), result |-> Running]
    ELSE IF f.at = "key" THEN
        IF v.t # "String" \/ KeyOk(v.str, f.prev_key) THEN
            [stack |-> SetTop(stk, [f EXCEPT !.key = v.str, !.prev_key = v.str,
                                              !.at = "val"]),
             result |-> Running]
        ELSE NewCatch(stk, ErrOther("Invalid dict bencoding"))
    ELSE
        [stack |-> SetTop(stk, [f EXCEPT !.dict = Insert(f.dict, f.key, v),
                                          !.key = <<>>, !.at = "key"]),
         result |-> Running]

(***************************************************************************)
(* What the caller at the top of stk does with Ok(v) from Benc::node.     *)
(***************************************************************************)
Give(stk, v) ==
    LET f == Top(stk) IN
    IF f.fn = "new" THEN
        [stack |-> SetTop(stk, [f EXCEPT !.ast = Append(f.ast, v)]), result |-> Running]
    ELSE IF f.fn = "list" THEN
        [stack |-> SetTop(stk, [f EXCEPT !.list = Append(f.list, v)]), result |-> Running]
    ELSE IF f.at = "key" THEN
        IF v.t = "String" THEN
            IF KeyOk(v.str, f.prev_key) THEN
                [stack |-> SetTop(stk, [f EXCEPT !.key = v.str, !.prev_key = v.str,
                                                  !.at = "val"]),
                 result |-> Running]
            ELSE NewCatch(stk, ErrOther("Invalid dict bencoding"))
        ELSE NewCatch(stk, ErrOther("Expected BString key for dictionary"))
    ELSE
        [stack |-> SetTop(stk, [f EXCEPT !.dict = Insert(f.dict, f.key, v),
                                          !.key = <<>>, !.at = "key"]),
         result |-> Running]

(***************************************************************************)
(* Mutant of node: a NUL byte is a byte like any other.                   *)
(***************************************************************************)
nodeNulIsByte(r, delim) ==
    IF r.k = "byte" /\ r.c = delim THEN ErrDelim(r.c)
    ELSE IF r.k = "none" THEN ErrEndOfFile
    ELSE IF r.k = "err" THEN ErrIo
    ELSE IF type_of(r.c) = "None" THEN ErrOther("Parse error")
    ELSE NoError

(***************************************************************************)
(* Mutant of node: a failed read is taken for the end of the input.       *)
(***************************************************************************)
nodeEofOnIo(r, delim) ==
    IF r.k = "byte" /\ r.c = delim THEN ErrDelim(r.c)
    ELSE IF r.k # "byte" \/ r.c = NUL THEN ErrEndOfFile
    ELSE IF type_of(r.c) = "None" THEN ErrOther("Parse error")
    ELSE NoError

(***************************************************************************)
(* Benc::node up to the dispatch: the signal for the byte just read.      *)
(***************************************************************************)
node(r, delim) ==
    IF r.k = "byte" /\ r.c = delim THEN ErrDelim(r.c)
    ELSE IF r.k = "none" \/ (r.k = "byte" /\ r.c = NUL) THEN ErrEndOfFile
    ELSE IF r.k = "err" THEN ErrIo
    ELSE IF type_of(r.c) = "None" THEN ErrOther("Parse error")
    ELSE NoError

NoDelim == -1

(***************************************************************************)
(* The dispatch of Benc::node: the activation of the sub-parser.          *)
(***************************************************************************)
Dispatch(c) ==
    IF type_of(c) = "String" THEN StringFrame(c)
    ELSE IF type_of(c) = "Int" THEN IntFrame
    ELSE IF type_of(c) = "List" THEN ListFrame
    ELSE DictFrame

Set(o) ==
    /\ stack' = o.stack
    /\ result' = o.result

Step ==
    /\ result.status = "running"
    /\ pos' = Advance(input, pos)
    /\ UNCHANGED <<input, ioFail>>
    /\ UNCHANGED fvars
    /\ UNCHANGED uvars
    /\ UNCHANGED tvars

(***************************************************************************)
(* One iteration of the loop of Benc::new.                                *)
(***************************************************************************)
NewLoop ==
    /\ Step
    /\ Top(stack).fn = "new"
    /\ LET r == ReadByte(input, pos, ioFail)
           e == node(r, NoDelim)
       IN IF e = NoError
          THEN Set([stack |-> Append(stack, Dispatch(r.c)), result |-> Running])
          ELSE Set(NewCatch(stack, e))

(***************************************************************************)
(* Mutant of ListLoop: the end of the input closes the list.              *)
(***************************************************************************)
ListLoopEofCloses ==
    /\ Step
    /\ Top(stack).fn = "list"
    /\ LET r == ReadByte(input, pos, ioFail)
           e == node(r, ByteE)
       IN IF e = NoError
          THEN Set([stack |-> Append(stack, Dispatch(r.c)), result |-> Running])
          ELSE IF e.kind \in {"Delim", "EndOfFile"}
          THEN Set(Give(Pop(stack), BList(Top(stack).list)))
          ELSE Set(NewCatch(stack, e))

(***************************************************************************)
(* Mutant of ListLoop: at the end of the source the loop reads again.     *)
(***************************************************************************)
ListLoopReadsAgain ==
    /\ Step
    /\ Top(stack).fn = "list"
    /\ LET r == ReadByte(input, pos, ioFail)
           e == node(r, ByteE)
       IN IF e = NoError
          THEN Set([stack |-> Append(stack, Dispatch(r.c)), result |-> Running])
          ELSE IF e.kind = "Delim"
          THEN Set(Give(Pop(stack), BList(Top(stack).list)))
          ELSE IF r.k = "none"
          THEN Set([stack |-> stack, result |-> Running])
          ELSE Set(NewCatch(stack, e))

(***************************************************************************)
(* Mutant of ListLoop: no node is read below three activations.           *)
(***************************************************************************)
ListLoopDepthCapped ==
    /\ Step
    /\ Top(stack).fn = "list"
    /\ LET r == ReadByte(input, pos, ioFail)
           e == node(r, ByteE)
       IN IF e = NoError
          THEN IF Len(stack) > 3
               THEN Set(NewCatch(stack, ErrOther("Parse error")))
               ELSE Set([stack |-> Append(stack, Dispatch(r.c)), result |-> Running])
          ELSE IF e.kind = "Delim"
          THEN Set(Give(Pop(stack), BList(Top(stack).list)))
          ELSE Set(NewCatch(stack, e))

(***************************************************************************)
(* One iteration of the loop of Benc::list.                               *)
(***************************************************************************)
ListLoop ==
    /\ Step
    /\ Top(stack).fn = "list"
    /\ LET r == ReadByte(input, pos, ioFail)
           e == node(r, ByteE)
       IN IF e = NoError
          THEN Set([stack |-> Append(stack, Dispatch(r.c)), result |-> Running])
          ELSE IF e.kind = "Delim"
          THEN Set(Give(Pop(stack), BList(Top(stack).list)))
          ELSE Set(NewCatch(stack, e))

(***************************************************************************)
(* Benc::dict, the read of a key.                                         *)
(***************************************************************************)
DictKey ==
    /\ Step
    /\ Top(stack).fn = "dict" /\ Top(stack).at = "key"
    /\ LET r == ReadByte(input, pos, ioFail)
           e == node(r, ByteE)
       IN IF e = NoError
          THEN Set([stack |-> Append(stack, Dispatch(r.c)), result |-> Running])
          ELSE IF e.kind = "Delim"
          THEN Set(Give(Pop(stack), BDict(Top(stack).dict)))
          ELSE Set(NewCatch(stack, e))

(***************************************************************************)
(* Benc::dict, the read of a value.                                       *)
(***************************************************************************)
DictVal ==
    /\ Step
    /\ Top(stack).fn = "dict" /\ Top(stack).at = "val"
    /\ LET r == ReadByte(input, pos, ioFail)
           e == node(r, NoDelim)
       IN IF e = NoError
          THEN Set([stack |-> Append(stack, Dispatch(r.c)), result |-> Running])
          ELSE Set(NewCatch(stack, e))

(***************************************************************************)
(* Mutant of AfterColon: a length of zero yields the empty string.        *)
(***************************************************************************)
AfterColonEmptyOk(stk) ==
    IF Top(stk).len = 0 THEN Give(Pop(stk), BString(<<>>))
    ELSE [stack |-> SetTop(stk, [Top(stk) EXCEPT !.at = "body"]), result |-> Running]

(***************************************************************************)
(* Benc::string after the ':' of the prefix: a length of zero is an error, *)
(* otherwise the body loop starts.                                         *)
(***************************************************************************)
AfterColon(stk) ==
    IF Top(stk).len = 0 THEN NewCatch(stk, ErrOther("Invalid string bencoding"))
    ELSE [stack |-> SetTop(stk, [Top(stk) EXCEPT !.at = "body"]), result |-> Running]

(***************************************************************************)
(* Mutant of StringLen: a digit behind a length of zero is refused.       *)
(***************************************************************************)
StringLenNoLeadingZero ==
    /\ Step
    /\ Top(stack).fn = "string" /\ Top(stack).at = "len"
    /\ LET r == ReadByte(input, pos, ioFail)
           f == Top(stack)
           err == ErrOther("Invalid string bencoding")
       IN IF r.k = "err" THEN Set(NewCatch(stack, ErrIo))
          ELSE IF r.k = "none" THEN Set(NewCatch(stack, err))
          ELSE IF r.c \in Digits /\ f.len # 0 THEN
              IF UsizeMulAdd(f.len, r.c - Zero) = -1
              THEN Set(NewCatch(stack, ErrOther("Integer overflow")))
              ELSE Set([stack |-> SetTop(stack, [f EXCEPT !.len = UsizeMulAdd(f.len, r.c - Zero)]),
                        result |-> Running])
          ELSE IF r.c = Colon THEN Set(AfterColon(stack))
          ELSE Set(NewCatch(stack, err))

(***************************************************************************)
(* Benc::string, the loop over the length prefix.                         *)
(***************************************************************************)
StringLen ==
    /\ Step
    /\ Top(stack).fn = "string" /\ Top(stack).at = "len"
    /\ LET r == ReadByte(input, pos, ioFail)
           f == Top(stack)
           err == ErrOther("Invalid string bencoding")
       IN IF r.k = "err" THEN Set(NewCatch(stack, ErrIo))
          ELSE IF r.k = "none" THEN Set(NewCatch(stack, err))
          ELSE IF r.c \in Digits THEN
              IF UsizeMulAdd(f.len, r.c - Zero) = -1
              THEN Set(NewCatch(stack, ErrOther("Integer overflow")))
              ELSE Set([stack |-> SetTop(stack, [f EXCEPT !.len = UsizeMulAdd(f.len, r.c - Zero)]),
                        result |-> Running])
          ELSE IF r.c = Colon THEN Set(AfterColon(stack))
          ELSE Set(NewCatch(stack, err))

(***************************************************************************)
(* Benc::string, the loop over the body.                                  *)
(***************************************************************************)
StringBody ==
    /\ Step
    /\ Top(stack).fn = "string" /\ Top(stack).at = "body"
    /\ LET r == ReadByte(input, pos, ioFail)
           f == Top(stack)
           err == ErrOther("Invalid string bencoding")
       IN IF r.k = "err" THEN Set(NewCatch(stack, ErrIo))
          ELSE IF r.k = "none" THEN Set(NewCatch(stack, err))
          ELSE IF f.len - 1 = 0
          THEN Set(Give(Pop(stack), BString(Append(f.buf, r.c))))
          ELSE Set([stack |-> SetTop(stack, [f EXCEPT !.buf = Append(f.buf, r.c),
                                                      !.len = f.len - 1]),
                    result |-> Running])

(***************************************************************************)
(* Benc::int, the first byte.                                             *)
(***************************************************************************)
IntFirst ==
    /\ Step
    /\ Top(stack).fn = "int" /\ Top(stack).at = "first"
    /\ LET r == ReadByte(input, pos, ioFail)
           f == Top(stack)
           err == ErrOther("Invalid int bencoding")
       IN IF r.k = "err" THEN Set(NewCatch(stack, ErrIo))
          ELSE IF r.k = "none" THEN Set(NewCatch(stack, err))
          ELSE IF r.c = Minus
          THEN Set([stack |-> SetTop(stack, [f EXCEPT !.neg = -1, !.at = "sign"]),
                    result |-> Running])
          ELSE IF r.c \in Digits
          THEN Set([stack |-> SetTop(stack, [f EXCEPT !.num = r.c - Zero,
                                  !.at = IF r.c = Zero THEN "zero" ELSE "digits"]),
                    result |-> Running])
          ELSE Set(NewCatch(stack, err))

(***************************************************************************)
(* Mutant of AfterMinus: any digit may follow '-'.                        *)
(***************************************************************************)
AfterMinusAnyDigit == Digits

(***************************************************************************)
(* Benc::int: the bytes that may follow '-'.                              *)
(***************************************************************************)
AfterMinus == One..Nine

(***************************************************************************)
(* Benc::int, the byte after '-'.                                         *)
(***************************************************************************)
IntSign ==
    /\ Step
    /\ Top(stack).fn = "int" /\ Top(stack).at = "sign"
    /\ LET r == ReadByte(input, pos, ioFail)
           f == Top(stack)
           err == ErrOther("Invalid int bencoding")
       IN IF r.k = "err" THEN Set(NewCatch(stack, ErrIo))
          ELSE IF r.k = "byte" /\ r.c \in AfterMinus
          THEN Set([stack |-> SetTop(stack, [f EXCEPT !.num = r.c - Zero, !.at = "digits"]),
                    result |-> Running])
          ELSE Set(NewCatch(stack, err))

(***************************************************************************)
(* Benc::int, the byte after a leading '0'.                               *)
(***************************************************************************)
IntZero ==
    /\ Step
    /\ Top(stack).fn = "int" /\ Top(stack).at = "zero"
    /\ LET r == ReadByte(input, pos, ioFail)
           f == Top(stack)
           err == ErrOther("Invalid int bencoding")
       IN IF r.k = "err" THEN Set(NewCatch(stack, ErrIo))
          ELSE IF r.k = "byte" /\ r.c = ByteE
          THEN Set(Give(Pop(stack), BInt(f.num)))
          ELSE Set(NewCatch(stack, err))

(***************************************************************************)
(* Benc::int, the loop over the remaining digits.                         *)
(***************************************************************************)
IntDigits ==
    /\ Step
    /\ Top(stack).fn = "int" /\ Top(stack).at = "digits"
    /\ LET r == ReadByte(input, pos, ioFail)
           f == Top(stack)
           err == ErrOther("Invalid int bencoding")
       IN IF r.k = "err" THEN Set(NewCatch(stack, ErrIo))
          ELSE IF r.k = "none" THEN Set(NewCatch(stack, err))
          ELSE IF r.c \in Digits THEN
              IF I64MulAdd(f.num, r.c - Zero) = -1
              THEN Set(NewCatch(stack, ErrOther("Integer overflow")))
              ELSE Set([stack |-> SetTop(stack, [f EXCEPT !.num = I64MulAdd(f.num, r.c - Zero)]),
                        result |-> Running])
          ELSE IF r.c = ByteE
          THEN Set(Give(Pop(stack), BInt(f.neg * f.num)))
          ELSE Set(NewCatch(stack, err))

(***************************************************************************)
(* encode, as section 4.4 of the specification defines it: decimal length *)
(* and raw bytes; 'i', canonical decimal, 'e'; 'l' items 'e'; 'd' entries *)
(* by ascending key 'e'.                                                   *)
(***************************************************************************)
RECURSIVE Dec(_)
Dec(n) == IF n < 10 THEN <<Zero + n>> ELSE Dec(n \div 10) \o <<Zero + (n % 10)>>

IntLit(n) == IF n < 0 THEN <<Minus>> \o Dec(-n) ELSE Dec(n)

(***************************************************************************)
(* Mutant of MinKey: the greatest key comes first.                        *)
(***************************************************************************)
MaxKey(K) == CHOOSE k \in K : \A o \in K \ {k} : VecLt(o, k)

MinKey(K) == CHOOSE k \in K : \A o \in K \ {k} : VecLt(k, o)

RECURSIVE Encode(_), EncodeAll(_), EncodeEntries(_, _)
Encode(v) ==
    IF v.t = "String" THEN Dec(Len(v.str)) \o <<Colon>> \o v.str
    ELSE IF v.t = "Int" THEN <<ByteI>> \o IntLit(v.int) \o <<ByteE>>
    ELSE IF v.t = "List" THEN <<ByteL>> \o EncodeAll(v.list) \o <<ByteE>>
    ELSE <<ByteD>> \o EncodeEntries(v.dict, DOMAIN v.dict) \o <<ByteE>>

EncodeAll(l) == IF l = <<>> THEN <<>> ELSE Encode(Head(l)) \o EncodeAll(Tail(l))

EncodeEntries(d, K) ==
    IF K = {} THEN <<>>
    ELSE LET k == MinKey(K)
         IN Encode(BString(k)) \o Encode(d[k]) \o EncodeEntries(d, K \ {k})

(***************************************************************************)
(* Paths (std::path on unix).  A path is its string, a sequence of        *)
(* characters; the separator is "/".  The arguments of the model have no  *)
(* "." or ".." component and no doubled separator.                         *)
(***************************************************************************)
Sep == "/"

is_absolute(p) == p # <<>> /\ p[1] = Sep

RECURSIVE SplitFrom(_, _)
SplitFrom(p, cur) ==
    IF p = <<>> THEN (IF cur = <<>> THEN <<>> ELSE <<cur>>)
    ELSE IF Head(p) = Sep
    THEN (IF cur = <<>> THEN <<>> ELSE <<cur>>) \o SplitFrom(Tail(p), <<>>)
    ELSE SplitFrom(Tail(p), Append(cur, Head(p)))

(***************************************************************************)
(* Path::components: the root, if any, and the names between separators.  *)
(***************************************************************************)
components(p) == (IF is_absolute(p) THEN <<<<Sep>>>> ELSE <<>>) \o SplitFrom(p, <<>>)

path_eq(a, b) == components(a) = components(b)

starts_with(p, base) ==
    /\ Len(components(base)) <= Len(components(p))
    /\ \A i \in 1..Len(components(base)) : components(p)[i] = components(base)[i]

file_name(p) == SplitFrom(p, <<>>) # <<>>

RECURSIVE StripSeps(_), StripName(_)
StripSeps(p) ==
    IF p # <<>> /\ p[Len(p)] = Sep THEN StripSeps(SubSeq(p, 1, Len(p) - 1)) ELSE p

StripName(p) ==
    IF p # <<>> /\ p[Len(p)] # Sep THEN StripName(SubSeq(p, 1, Len(p) - 1)) ELSE p

(***************************************************************************)
(* Path::parent of a path that has a file name: the path without its last *)
(* component (Path::parent is None exactly when file_name is false).      *)
(***************************************************************************)
parent(p) ==
    LET r == StripName(StripSeps(p))
    IN IF r # <<>> /\ StripSeps(r) = <<>> THEN <<Sep>> ELSE StripSeps(r)

(***************************************************************************)
(* PathBuf::push and Path::join: an absolute argument replaces the path.  *)
(***************************************************************************)
join(base, p) ==
    IF is_absolute(p) THEN p
    ELSE IF base = <<>> \/ base[Len(base)] = Sep THEN base \o p
    ELSE base \o <<Sep>> \o p

with_file_name(p, name) ==
    IF file_name(p) THEN join(parent(p), name) ELSE join(p, name)

(***************************************************************************)
(* Status: NotCreated, Missing(Option<PathBuf>), and Downloading for the  *)
(* variants File::set_location treats alike (Downloading, Stopped,        *)
(* Seeding, Skip, Done, Other).                                            *)
(***************************************************************************)
NotCreated == [tag |-> "NotCreated", some |-> FALSE, was |-> <<>>]
Downloading == [tag |-> "Downloading", some |-> FALSE, was |-> <<>>]
MissingNone == [tag |-> "Missing", some |-> FALSE, was |-> <<>>]
Missing(p) == [tag |-> "Missing", some |-> TRUE, was |-> p]

(***************************************************************************)
(* File and Directory, with the fields the moves read and write (name,    *)
(* length and md5sum are carried along untouched and left out).           *)
(***************************************************************************)
File(p, st) == [some |-> TRUE, path |-> p, status |-> st]
NoFile == [some |-> FALSE, path |-> <<>>, status |-> NotCreated]

Directory(p, fs) == [some |-> TRUE, path |-> p, files |-> fs, status |-> NotCreated]
NoDirectory == [some |-> FALSE, path |-> <<>>, files |-> <<>>, status |-> NotCreated]

(***************************************************************************)
(* A call made: the operation, what it returned ("panic" for a panic) and *)
(* the filesystem functions it called.                                     *)
(***************************************************************************)
Call(op, ret, fs) == [op |-> op, ret |-> ret, fs |-> {fs[i] : i \in 1..Len(fs)}]
NoCall == Call("", "", <<>>)

(***************************************************************************)
(* Mutant of File_set_location: a file that is NotCreated or Missing is   *)
(* moved on disk like any other.                                           *)
(***************************************************************************)
File_set_locationAlwaysMoves(f, p, mk, mv) ==
    IF ~is_absolute(p) THEN [file |-> f, ret |-> "InvalidInput", fs |-> <<>>]
    ELSE IF ~file_name(p) THEN [file |-> f, ret |-> "InvalidInput", fs |-> <<>>]
    ELSE IF ~mk THEN [file |-> f, ret |-> "Io", fs |-> <<"create_dir_all">>]
    ELSE IF mv THEN [file |-> [f EXCEPT !.path = p], ret |-> "Ok",
                     fs |-> <<"create_dir_all", "rename">>]
    ELSE [file |-> [f EXCEPT !.path = p, !.status = Missing(f.path)], ret |-> "Io",
          fs |-> <<"create_dir_all", "rename">>]

(***************************************************************************)
(* Mutant of File_set_location: a failed fs::rename puts the old path     *)
(* back and leaves the status alone.                                       *)
(***************************************************************************)
File_set_locationRollsBack(f, p, mk, mv) ==
    IF ~is_absolute(p) THEN [file |-> f, ret |-> "InvalidInput", fs |-> <<>>]
    ELSE IF f.status.tag \in {"NotCreated", "Missing"}
    THEN [file |-> [f EXCEPT !.path = p], ret |-> "Ok", fs |-> <<>>]
    ELSE IF ~file_name(p) THEN [file |-> f, ret |-> "InvalidInput", fs |-> <<>>]
    ELSE IF ~mk THEN [file |-> f, ret |-> "Io", fs |-> <<"create_dir_all">>]
    ELSE IF mv THEN [file |-> [f EXCEPT !.path = p], ret |-> "Ok",
                     fs |-> <<"create_dir_all", "rename">>]
    ELSE [file |-> f, ret |-> "Io", fs |-> <<"create_dir_all", "rename">>]

(***************************************************************************)
(* Mutant of File_set_location: any path is taken.                        *)
(***************************************************************************)
File_set_locationAnyPath(f, p, mk, mv) ==
    IF f.status.tag \in {"NotCreated", "Missing"}
    THEN [file |-> [f EXCEPT !.path = p], ret |-> "Ok", fs |-> <<>>]
    ELSE [file |-> f, ret |-> "InvalidInput", fs |-> <<>>]

(***************************************************************************)
(* File::set_location(p): the file after the call, what the call returns  *)
(* and the filesystem calls it makes; mk and mv tell whether              *)
(* fs::create_dir_all and fs::rename succeed.                              *)
(***************************************************************************)
File_set_location(f, p, mk, mv) ==
    IF ~is_absolute(p) THEN [file |-> f, ret |-> "InvalidInput", fs |-> <<>>]
    ELSE IF f.status.tag \in {"NotCreated", "Missing"}
    THEN [file |-> [f EXCEPT !.path = p], ret |-> "Ok", fs |-> <<>>]
    ELSE IF ~file_name(p) THEN [file |-> f, ret |-> "InvalidInput", fs |-> <<>>]
    ELSE IF ~mk THEN [file |-> f, ret |-> "Io", fs |-> <<"create_dir_all">>]
    ELSE IF mv THEN [file |-> [f EXCEPT !.path = p], ret |-> "Ok",
                     fs |-> <<"create_dir_all", "rename">>]
    ELSE [file |-> [f EXCEPT !.path = p, !.status = Missing(f.path)], ret |-> "Io",
          fs |-> <<"create_dir_all", "rename">>]

(***************************************************************************)
(* The body of the loop of Directory::set_location for one file: a file   *)
(* outside self.path is skipped; the slice &f[path_len..] panics when     *)
(* path_len is beyond the end of the file's path.                          *)
(***************************************************************************)
MoveOne(f, old, to, o) ==
    IF ~starts_with(f.path, old) THEN [file |-> f, ret |-> "skip", fs |-> <<>>]
    ELSE IF Len(old) + 1 > Len(f.path) THEN [file |-> f, ret |-> "panic", fs |-> <<>>]
    ELSE File_set_location(f, join(to, SubSeq(f.path, Len(old) + 2, Len(f.path))), o.mk, o.mv)

(***************************************************************************)
(* The loop of Directory::set_location over self.files, in order.         *)
(***************************************************************************)
RECURSIVE MoveAll(_, _, _, _)
MoveAll(files, old, to, outs) ==
    IF files = <<>> THEN [files |-> <<>>, errs |-> 0, fs |-> <<>>, panic |-> FALSE]
    ELSE LET m == MoveOne(Head(files), old, to, Head(outs))
         IN IF m.ret = "panic"
            THEN [files |-> files, errs |-> 0, fs |-> <<>>, panic |-> TRUE]
            ELSE LET r == MoveAll(Tail(files), old, to, Tail(outs))
                 IN [files |-> <<m.file>> \o r.files,
                     errs |-> r.errs + (IF m.ret \in {"InvalidInput", "Io"} THEN 1 ELSE 0),
                     fs |-> m.fs \o r.fs,
                     panic |-> r.panic]

(***************************************************************************)
(* Mutant of Directory_set_location: any path is taken.                   *)
(***************************************************************************)
Directory_set_locationAnyPath(d, to, mkd, outs) ==
    IF path_eq(to, d.path) THEN [dir |-> d, ret |-> "Ok", fs |-> <<>>]
    ELSE [dir |-> [d EXCEPT !.path = to], ret |-> "Ok", fs |-> <<"create_dir_all">>]

(***************************************************************************)
(* Directory::set_location(dir): the directory after the call, what the   *)
(* call returns and the filesystem calls it makes; mkd tells whether      *)
(* fs::create_dir_all(&dir) succeeds, outs the same for each file's move. *)
(* A panic leaves the files moved so far moved and self.path as it was.   *)
(***************************************************************************)
Directory_set_location(d, to, mkd, outs) ==
    IF ~is_absolute(to) THEN [dir |-> d, ret |-> "InvalidInput", fs |-> <<>>]
    ELSE IF path_eq(to, d.path) THEN [dir |-> d, ret |-> "Ok", fs |-> <<>>]
    ELSE IF ~mkd THEN [dir |-> d, ret |-> "Io", fs |-> <<"create_dir_all">>]
    ELSE LET m == MoveAll(d.files, d.path, to, outs)
         IN IF m.panic
            THEN [dir |-> [d EXCEPT !.files = m.files], ret |-> "panic",
                  fs |-> <<"create_dir_all">> \o m.fs]
            ELSE [dir |-> [d EXCEPT !.files = m.files, !.path = to],
                  ret |-> IF m.errs = 0 THEN "Ok" ELSE "MoveErrors",
                  fs |-> <<"create_dir_all">> \o m.fs \o <<"remove_dir">>]

(***************************************************************************)
(* Mutant of Directory_rename: the name is appended to the path.          *)
(***************************************************************************)
Directory_renameInto(d, name, mkd, outs) == Directory_set_location(d, join(d.path, name), mkd, outs)

(***************************************************************************)
(* Directory::rename(p).                                                   *)
(***************************************************************************)
Directory_rename(d, name, mkd, outs) ==
    Directory_set_location(d, with_file_name(d.path, name), mkd, outs)

(***************************************************************************)
(* util::valid_byte, one definition for each target_os.                   *)
(***************************************************************************)
Slash == 47
Backslash == 92
Star == 42
Question == 63
Quote == 34
Less == 60
Greater == 62
Pipe == 124

valid_byte(target, b) ==
    IF target = "linux" THEN b # NUL
    ELSE IF target = "macos" THEN TRUE
    ELSE b \notin {NUL, Slash, Backslash, Colon, Star, Question, Quote, Less, Greater, Pipe}

(***************************************************************************)
(* Iterator::position: the index (from 0) of the first byte of s that is  *)
(* valid, -1 for None.                                                     *)
(***************************************************************************)
position(target, s) ==
    IF \E i \in 1..Len(s) : valid_byte(target, s[i])
    THEN (CHOOSE i \in 1..Len(s) :
              /\ valid_byte(target, s[i])
              /\ \A j \in 1..(i - 1) : ~valid_byte(target, s[j])) - 1
    ELSE -1

RECURSIVE filter(_, _)
filter(target, s) ==
    IF s = <<>> THEN <<>>
    ELSE IF valid_byte(target, Head(s)) THEN <<Head(s)>> \o filter(target, Tail(s))
    ELSE filter(target, Tail(s))

Borrowed(s) == [called |-> TRUE, cow |-> "Borrowed", bytes |-> s]
Owned(s) == [called |-> TRUE, cow |-> "Owned", bytes |-> s]
NotCalled == [called |-> FALSE, cow |-> "", bytes |-> <<>>]

(***************************************************************************)
(* util::sanitize_path: the bytes before the first valid byte are copied  *)
(* as they are, the bytes from it on are filtered; a path with no valid   *)
(* byte is returned as it is.                                              *)
(***************************************************************************)
sanitize_path(target, s) ==
    IF position(target, s) = -1 THEN Borrowed(s)
    ELSE Owned(SubSeq(s, 1, position(target, s))
               \o filter(target, SubSeq(s, position(target, s) + 1, Len(s))))

(***************************************************************************)
(* Torrent::new (src/src/torrent.rs), from the return of the decode on.   *)
(* A String is the bytes it holds; String::from_utf8 takes the bytes of   *)
(* the arguments that are ASCII and refuses the byte 255.  An Option is a *)
(* record with a flag.  creation_date keeps the seconds it is made of.    *)
(***************************************************************************)
Letters == <<"a", "b", "c", "d", "e", "f", "g", "h", "i", "j", "k", "l", "m",
             "n", "o", "p", "q", "r", "s", "t", "u", "v", "w", "x", "y", "z">>

Ascii(ch) ==
    IF ch = " " THEN 32
    ELSE IF ch = "-" THEN Minus
    ELSE IF ch = "5" THEN Zero + 5
    ELSE (ByteA - 1) + CHOOSE i \in 1..Len(Letters) : Letters[i] = ch

as_bytes(str) == [i \in 1..Len(str) |-> Ascii(str[i])]

KeyInfo == as_bytes(<<"i", "n", "f", "o">>)
KeyComment == as_bytes(<<"c", "o", "m", "m", "e", "n", "t">>)
KeyCreatedBy == as_bytes(<<"c", "r", "e", "a", "t", "e", "d", " ", "b", "y">>)
KeyEncoding == as_bytes(<<"e", "n", "c", "o", "d", "i", "n", "g">>)
KeyCreationDate == as_bytes(<<"c", "r", "e", "a", "t", "i", "o", "n", " ", "d", "a", "t", "e">>)
KeyPrivate == as_bytes(<<"p", "r", "i", "v", "a", "t", "e">>)
KeyPieceLength == as_bytes(<<"p", "i", "e", "c", "e", " ", "l", "e", "n", "g", "t", "h">>)
KeyPieces == as_bytes(<<"p", "i", "e", "c", "e", "s">>)
KeyAnnounceList == as_bytes(<<"a", "n", "n", "o", "u", "n", "c", "e", "-", "l", "i", "s", "t">>)
KeyAnnounce == as_bytes(<<"a", "n", "n", "o", "u", "n", "c", "e">>)
KeyFiles == as_bytes(<<"f", "i", "l", "e", "s">>)
KeyMd5sum == as_bytes(<<"m", "d", "5", "s", "u", "m">>)
KeyPath == as_bytes(<<"p", "a", "t", "h">>)

Some(v) == [some |-> TRUE, v |-> v]
NoneString == [some |-> FALSE, v |-> <<>>]
NoneInt == [some |-> FALSE, v |-> 0]

Utf8(v) == \A i \in 1..Len(v) : v[i] < 128

(***************************************************************************)
(* The macros of torrent.rs on the entry of a map: unwrap!(key, val, err) *)
(* and unwrap_bstring!(key, err) return err unless Has holds;             *)
(* unwrap_bstring!(key) and unwrap!(key, val) give an Option.             *)
(***************************************************************************)
Has(d, k, t) == k \in DOMAIN d /\ d[k].t = t

HasString(d, k) == Has(d, k, "String") /\ Utf8(d[k].str)

unwrap_bstring(d, k) == IF HasString(d, k) THEN Some(d[k].str) ELSE NoneString

AllStrings(l) == \A i \in 1..Len(l) : l[i].t = "String" /\ Utf8(l[i].str)

(***************************************************************************)
(* ToHex::to_hex: two lower-case hexadecimal digits for each byte.        *)
(***************************************************************************)
HexDigits == <<"0", "1", "2", "3", "4", "5", "6", "7", "8", "9", "a", "b", "c", "d", "e", "f">>

RECURSIVE to_hex(_)
to_hex(v) ==
    IF v = <<>> THEN <<>>
    ELSE <<HexDigits[(Head(v) \div 16) + 1], HexDigits[(Head(v) % 16) + 1]>> \o to_hex(Tail(v))

split_len == 20

Fail == [ok |-> FALSE, v |-> <<>>]
Good(v) == [ok |-> TRUE, v |-> v]

(***************************************************************************)
(* Mutant of pieces: the bytes behind the last whole piece are dropped.   *)
(***************************************************************************)
piecesDropsRemainder(info) ==
    IF ~Has(info, KeyPieces, "String") THEN Fail
    ELSE LET data == info[KeyPieces].str
         IN Good([i \in 1..(Len(data) \div split_len) |->
                     to_hex(SubSeq(data, (i - 1) * split_len + 1, i * split_len))])

(***************************************************************************)
(* Torrent::new, the block that fills t.pieces.                           *)
(***************************************************************************)
pieces(info) ==
    IF ~Has(info, KeyPieces, "String") THEN Fail
    ELSE LET data == info[KeyPieces].str
         IN IF Len(data) % split_len # 0 THEN Fail
            ELSE Good([i \in 1..(Len(data) \div split_len) |->
                          to_hex(SubSeq(data, (i - 1) * split_len + 1, i * split_len))])

(***************************************************************************)
(* Torrent::new, the block that fills t.announce.                         *)
(***************************************************************************)
Tracker(s) == [kind |-> "Tracker", url |-> s, list |-> <<>>]
List(l) == [kind |-> "List", url |-> <<>>, list |-> l]

announce(benc) ==
    IF KeyAnnounceList \in DOMAIN benc /\ ~Has(benc, KeyAnnounceList, "List") THEN Fail
    ELSE IF KeyAnnounceList \in DOMAIN benc /\ benc[KeyAnnounceList].list # <<>>
    THEN LET lists == benc[KeyAnnounceList].list
         IN IF \A i \in 1..Len(lists) : lists[i].t = "List" /\ AllStrings(lists[i].list)
            THEN Good(List([i \in 1..Len(lists) |->
                               [j \in 1..Len(lists[i].list) |-> lists[i].list[j].str]]))
            ELSE Fail
    ELSE IF HasString(benc, KeyAnnounce) THEN Good(Tracker(benc[KeyAnnounce].str))
    ELSE Fail

(***************************************************************************)
(* Torrent::new, the block that fills t.mode.  The name of a file of a    *)
(* directory is its path parts, each followed by '/', less the last       *)
(* character.                                                              *)
(***************************************************************************)
TFile(name, length, md5sum) ==
    [kind |-> "File", name |-> name, length |-> length, md5sum |-> md5sum, files |-> <<>>]
TDirectory(name, files) ==
    [kind |-> "Directory", name |-> name, length |-> 0, md5sum |-> NoneString, files |-> files]

RECURSIVE Slashed(_)
Slashed(parts) ==
    IF parts = <<>> THEN <<>> ELSE Head(parts).str \o <<Slash>> \o Slashed(Tail(parts))

pop_char(str) == IF str = <<>> THEN <<>> ELSE SubSeq(str, 1, Len(str) - 1)

FileOk(f) ==
    /\ f.t = "Dict"
    /\ Has(f.dict, KeyLength, "Int")
    /\ Has(f.dict, KeyPath, "List")
    /\ AllStrings(f.dict[KeyPath].list)

mode(info) ==
    IF KeyFiles \in DOMAIN info
    THEN IF /\ Has(info, KeyFiles, "List")
            /\ HasString(info, KeyName)
            /\ \A i \in 1..Len(info[KeyFiles].list) : FileOk(info[KeyFiles].list[i])
         THEN Good(TDirectory(info[KeyName].str,
                     [i \in 1..Len(info[KeyFiles].list) |->
                         LET f == info[KeyFiles].list[i].dict
                         IN TFile(pop_char(Slashed(f[KeyPath].list)), f[KeyLength].int,
                                  unwrap_bstring(f, KeyMd5sum))]))
         ELSE Fail
    ELSE IF HasString(info, KeyName) /\ Has(info, KeyLength, "Int")
    THEN Good(TFile(info[KeyName].str, info[KeyLength].int, unwrap_bstring(info, KeyMd5sum)))
    ELSE Fail

(***************************************************************************)
(* What Torrent::new returns.                                              *)
(***************************************************************************)
NoTorrent ==
    [called |-> FALSE, ok |-> FALSE, err |-> "", announce |-> Tracker(<<>>),
     creation_date |-> NoneInt, comment |-> NoneString, created_by |-> NoneString,
     encoding |-> NoneString, private |-> FALSE, piece_length |-> 0, pieces |-> <<>>,
     mode |-> TDirectory(<<>>, <<>>)]

TorrentErr(e) == [NoTorrent EXCEPT !.called = TRUE, !.err = e]

(***************************************************************************)
(* Torrent::new on the return r of the decode.  Every early return but    *)
(* that of a decode error carries the same error, so their order is of no *)
(* account.                                                                *)
(***************************************************************************)
Torrent_new(r) ==
    LET err == TorrentErr("Torrent file incorrect") IN
    IF r.status = "Err" THEN TorrentErr(IF r.err.msg = "" THEN r.err.kind ELSE r.err.msg)
    ELSE IF r.ast = <<>> \/ r.ast[1].t # "Dict" THEN err
    ELSE LET benc == r.ast[1].dict IN
    IF ~Has(benc, KeyInfo, "Dict") THEN err
    ELSE LET info == benc[KeyInfo].dict IN
    IF \/ ~Has(benc, KeyCreationDate, "Int")
       \/ ~Has(info, KeyPieceLength, "Int")
       \/ ~announce(benc).ok
       \/ ~pieces(info).ok
       \/ ~mode(info).ok
    THEN err
    ELSE [called |-> TRUE, ok |-> TRUE, err |-> "",
          announce |-> announce(benc).v,
          creation_date |-> Some(benc[KeyCreationDate].int),
          comment |-> unwrap_bstring(benc, KeyComment),
          created_by |-> unwrap_bstring(benc, KeyCreatedBy),
          encoding |-> unwrap_bstring(benc, KeyEncoding),
          private |-> Has(info, KeyPrivate, "Int") /\ info[KeyPrivate].int = 1,
          piece_length |-> info[KeyPieceLength].int,
          pieces |-> pieces(info).v,
          mode |-> mode(info).v]

(***************************************************************************)
(* Byte sources.                                                           *)
(***************************************************************************)
RawBytes == {NUL, Minus, Zero, One, Colon, ByteD, ByteE, ByteI, ByteL}

RECURSIVE SeqsUpTo(_, _)
SeqsUpTo(S, n) ==
    IF n = 0 THEN {<<>>}
    ELSE LET R == SeqsUpTo(S, n - 1)
         IN R \cup {Append(s, b) : s \in {x \in R : Len(x) = n - 1}, b \in S}

RawInputs == SeqsUpTo(RawBytes, MaxRaw)

Strs == {<<>>, <<ByteA>>, <<ByteB>>, <<NUL, ByteE>>, <<Colon, 255>>}
Keys == {<<ByteA>>, <<ByteA, ByteA>>, <<ByteB>>}
NestInts == {-1, 0, IntMax}

Maps(K, S) == UNION {[D -> S] : D \in {X \in SUBSET K : Cardinality(X) <= MaxItems}}

Atoms == {BString(s) : s \in Strs} \cup {BInt(n) : n \in NestInts}
TopInts == {BInt(n) : n \in IntMin..IntMax}
Flat == {BList(l) : l \in SeqsUpTo(Atoms, MaxItems)} \cup {BDict(d) : d \in Maps(Keys, Atoms)}
Few == {BInt(0), BString(<<ByteB>>), BList(<<>>), BList(<<BInt(0)>>), BDict(EmptyMap),
        BDict([k \in {<<ByteB>>} |-> BInt(0)])}
Deep == {BList(l) : l \in SeqsUpTo(Few, MaxItems)} \cup {BDict(d) : d \in Maps(Keys, Few)}
        \cup {BList(<<v>>) : v \in Flat}

Values == Atoms \cup TopInts \cup Flat \cup Deep

EncTable == {<<Encode(v), v>> : v \in Values}

(***************************************************************************)
(* Concatenations of encoded values, and a dictionary body written with   *)
(* its entries in any order.                                               *)
(***************************************************************************)
Streams == {EncodeAll(l) : l \in SeqsUpTo(Few \cup {BString(<<>>), BInt(IntMin)}, MaxTop)}

WireDict(es) == <<ByteD>> \o EncodeAll(es) \o <<ByteE>>

WireDicts == {WireDict(<<k1, v1, k2, v2>>) :
                 k1 \in {BString(k) : k \in Keys} \cup {BInt(0), BList(<<>>)},
                 v1 \in {BInt(0), BDict([k \in {<<ByteB>>} |-> BInt(0)])},
                 k2 \in {BString(k) : k \in Keys}, v2 \in {BInt(0)}}

IntLits == {<<ByteI>> \o IntLit(n) \o <<ByteE>> : n \in (-(10 * IntMax + 9))..(10 * IntMax + 9)}

(***************************************************************************)
(* Dictionaries of two entries, the example {b:1, a:2} among them.        *)
(***************************************************************************)
PairDicts == {BDict(d) : d \in [{<<ByteA>>, <<ByteB>>} -> {BInt(1), BInt(2)}]}
             \cup {BDict(d) : d \in [{<<ByteA, ByteB>>, <<ByteB>>} -> {BString(<<ByteA>>)}]}

(***************************************************************************)
(* Concatenations of encoded values followed by a NUL byte and by a byte  *)
(* that opens an integer.                                                  *)
(***************************************************************************)
NulTable == {<<EncodeAll(l) \o <<NUL, ByteI>>, l>> : l \in SeqsUpTo(Few, MaxTop)}

(***************************************************************************)
(* A byte that opens no node, alone, as the element of a list, as the key *)
(* and as the value of a dictionary entry.                                 *)
(***************************************************************************)
StrayBytes == {ByteE, Minus, Colon, ByteA, 255}

StrayWire == UNION {{<<c>>, <<ByteL, c>>, <<ByteD, c>>, <<ByteD, One, Colon, ByteA, c>>} :
                       c \in StrayBytes}

(***************************************************************************)
(* Dictionaries whose first key is an integer, a list or a dictionary.    *)
(***************************************************************************)
NotStrings == {BInt(0), BInt(-1), BList(<<>>), BList(<<BInt(0)>>), BDict(EmptyMap),
               BDict([k \in {<<ByteB>>} |-> BInt(0)])}

KeyTable == {<<WireDict(<<k, v>>), k>> : k \in NotStrings, v \in {BInt(0), BString(<<ByteA>>)}}

(***************************************************************************)
(* Dictionaries with a dictionary as the first value, and one more entry  *)
(* behind it.                                                              *)
(***************************************************************************)
Inner(k) == BDict([x \in {k} |-> BInt(0)])

ScopeTable == {<<WireDict(<<BString(k1), Inner(n), BString(k2), BInt(0)>>), k1, n, k2>> :
                  k1 \in Keys, n \in Keys, k2 \in Keys}

(***************************************************************************)
(* Strings with zeros written before the length.                          *)
(***************************************************************************)
RECURSIVE Zeros(_)
Zeros(n) == IF n = 0 THEN <<>> ELSE <<Zero>> \o Zeros(n - 1)

PaddedTable == {<<Zeros(n) \o Encode(BString(b)), b>> :
                   n \in 0..MaxTop, b \in {<<ByteA>>, <<ByteH, ByteI>>, <<Zero, Colon>>}}

Whole == {p[1] : p \in EncTable} \cup {p[1] \o <<NUL>> : p \in EncTable}
         \cup Streams \cup WireDicts \cup IntLits \cup {Encode(v) : v \in PairDicts}
         \cup {p[1] : p \in NulTable}
         \cup StrayWire \cup {p[1] : p \in KeyTable} \cup {p[1] : p \in ScopeTable}
         \cup {p[1] : p \in PaddedTable}

Prefixes(S) == UNION {{SubSeq(s, 1, n) : n \in 0..Len(s)} : s \in S}

Inputs == RawInputs \cup Prefixes(Whole)

Init ==
    /\ input \in Inputs
    /\ ioFail \in BOOLEAN
    /\ pos = 0
    /\ stack = <<NewFrame>>
    /\ result = Running
    /\ file = NoFile
    /\ dir = NoDirectory
    /\ last = NoCall
    /\ os = "linux"
    /\ path = <<>>
    /\ clean = NotCalled
    /\ torrent = NoTorrent

Next ==
    \/ NewLoop
    \/ ListLoop
    \/ DictKey
    \/ DictVal
    \/ StringLen
    \/ StringBody
    \/ IntFirst
    \/ IntSign
    \/ IntZero
    \/ IntDigits

Spec == Init /\ [][Next]_vars

Done == result.status # "running"

(***************************************************************************)
(* The decode as a running program: a call of Benc::new that has not      *)
(* returned takes its next step.                                           *)
(***************************************************************************)
SpecTerminates == Init /\ [][Next]_vars /\ WF_vars(Next)

(***************************************************************************)
(* Arguments of the calls: absolute and relative paths, the root and a    *)
(* path with a trailing separator among them, and names with and without  *)
(* a separator.                                                            *)
(***************************************************************************)
PathArgs == {<<Sep>>, <<Sep, "a">>, <<Sep, "a", Sep>>, <<Sep, "a", Sep, "b">>, <<Sep, "m">>,
             <<>>, <<"m">>, <<"a", Sep, "b">>}
DirArgs == {<<Sep>>, <<Sep, "a">>, <<Sep, "a", Sep>>, <<Sep, "m">>, <<"m">>}
NameArgs == {<<"m">>, <<Sep, "m">>}
FileArgs == {<<Sep, "a", Sep, "b">>, <<Sep, "a">>, <<Sep, "b">>, <<"b">>}

Settable == {NotCreated, Downloading, MissingNone}

(***************************************************************************)
(* What the filesystem answers to one move of a file: both calls succeed, *)
(* fs::create_dir_all fails, or fs::rename fails.                          *)
(***************************************************************************)
FsAnswers == {[mk |-> TRUE, mv |-> TRUE], [mk |-> FALSE, mv |-> TRUE], [mk |-> TRUE, mv |-> FALSE]}

(***************************************************************************)
(* What the filesystem answers to one Directory::set_location over n      *)
(* files: fs::create_dir_all(&dir) fails, or it succeeds and each file's  *)
(* move gets its answer.                                                   *)
(***************************************************************************)
Outcomes(n) ==
    {[mkd |-> FALSE, outs |-> [i \in 1..n |-> [mk |-> TRUE, mv |-> TRUE]]]}
    \cup {[mkd |-> TRUE, outs |-> o] : o \in [1..n -> FsAnswers]}

Fits(d) ==
    /\ Len(d.path) <= MaxPath
    /\ \A i \in 1..Len(d.files) : Len(d.files[i].path) <= MaxPath

(***************************************************************************)
(* Mutant of File_new: no assertion on the path.                          *)
(***************************************************************************)
File_newAnyPath(p) == File(p, NotCreated)

(***************************************************************************)
(* File::new(name, path, length): the File, or NoFile for the panic on a  *)
(* relative path.                                                          *)
(***************************************************************************)
File_new(p) == IF is_absolute(p) THEN File(p, NotCreated) ELSE NoFile

(***************************************************************************)
(* Files a caller hands to a Directory: made by File::new from FileArgs,  *)
(* and the first of them also with the public status written.             *)
(***************************************************************************)
HeldFiles ==
    ({File_new(p) : p \in FileArgs} \ {NoFile})
    \cup {[File_new(<<Sep, "a", Sep, "b">>) EXCEPT !.status = Downloading]}

(***************************************************************************)
(* str::from_utf8 on the bytes the arguments are made of: ASCII bytes are *)
(* the characters they encode, the byte 255 is in no valid encoding.      *)
(***************************************************************************)
Char(b) ==
    CASE b = Dot -> "."
      [] b = Slash -> Sep
      [] b = ByteA -> "a"
      [] b = ByteB -> "b"
      [] b = ByteD -> "d"
      [] b = ByteM -> "m"
      [] OTHER -> "?"

from_utf8(s) ==
    IF \A i \in 1..Len(s) : s[i] < 128
    THEN [ok |-> TRUE, str |-> [i \in 1..Len(s) |-> Char(s[i])]]
    ELSE [ok |-> FALSE, str |-> <<>>]


(***************************************************************************)
(* The loop of File::from_dict over name_raw: each part must be a string  *)
(* of valid UTF-8 and is pushed onto the path; the test                    *)
(* part_str != ".." || part_str != "." holds for every string.  NoFile     *)
(* stands for the early return of None.                                    *)
(***************************************************************************)
RECURSIVE PushParts(_, _)
PushParts(p, parts) ==
    IF parts = <<>> THEN File(p, NotCreated)
    ELSE IF Head(parts).t # "String" THEN NoFile
    ELSE IF ~from_utf8(Head(parts).str).ok THEN NoFile
    ELSE LET part_str == from_utf8(Head(parts).str).str
         IN IF part_str # <<".", ".">> \/ part_str # <<".">>
            THEN PushParts(join(p, part_str), Tail(parts))
            ELSE PushParts(p, Tail(parts))

(***************************************************************************)
(* File::from_dict(dict), with download the directory that                *)
(* util::download_dir() or env::temp_dir() answers: the File, or NoFile   *)
(* for None.  (The entries the call removes from the caller's map are not *)
(* kept by the model.)                                                     *)
(***************************************************************************)
File_from_dict(dict, download) ==
    IF KeyName \notin DOMAIN dict \/ dict[KeyName].t # "List" THEN NoFile
    ELSE LET f == PushParts(download, dict[KeyName].list)
         IN IF ~f.some THEN NoFile
            ELSE IF KeyLength \notin DOMAIN dict \/ dict[KeyLength].t # "Int" THEN NoFile
            ELSE IF dict[KeyLength].int < 0 THEN NoFile
            ELSE f

(***************************************************************************)
(* Arguments of File::from_dict: name lists of up to MaxParts parts, with *)
(* ".", ".." and an absolute part among them, a part that is no string    *)
(* and one that is no UTF-8; maps without a name or a length.             *)
(***************************************************************************)
PartArgs == {BString(<<ByteA>>), BString(<<Dot>>), BString(<<Dot, Dot>>),
             BString(<<Slash, ByteM>>), BString(<<255>>), BInt(0)}

NameArgsOfDict == {BList(l) : l \in SeqsUpTo(PartArgs, MaxParts)} \cup {BString(<<ByteA>>)}

DictArgs ==
    {[k \in {KeyName, KeyLength} |-> IF k = KeyName THEN n ELSE BInt(1)] : n \in NameArgsOfDict}
    \cup {[k \in {KeyName, KeyLength} |-> IF k = KeyName THEN BList(<<BString(<<ByteA>>)>>) ELSE v] :
             v \in {BInt(-1), BInt(0), BString(<<One>>)}}
    \cup {[k \in {KeyName} |-> BList(<<BString(<<ByteA>>)>>)],
          [k \in {KeyLength} |-> BInt(1)]}

DownloadDirs == {<<Sep, "d">>, <<Sep, "d", Sep, "m">>}

FileFromDict(d, download) ==
    /\ \E r \in {File_from_dict(d, download)} :
          IF r.some
          THEN file' = r /\ last' = Call("File::from_dict", "Some", <<>>)
          ELSE file' = file /\ last' = Call("File::from_dict", "None", <<>>)
    /\ UNCHANGED dir
    /\ UNCHANGED dvars
    /\ UNCHANGED uvars
    /\ UNCHANGED tvars

FileNew(p) ==
    /\ IF File_new(p).some
       THEN file' = File_new(p) /\ last' = Call("File::new", "Ok", <<>>)
       ELSE file' = file /\ last' = Call("File::new", "panic", <<>>)
    /\ UNCHANGED dir
    /\ UNCHANGED dvars
    /\ UNCHANGED uvars
    /\ UNCHANGED tvars

(***************************************************************************)
(* The caller writes the public field File::status.                       *)
(***************************************************************************)
FileSetStatus(st) ==
    /\ file.some
    /\ file' = [file EXCEPT !.status = st]
    /\ last' = Call("File::status", "Ok", <<>>)
    /\ UNCHANGED dir
    /\ UNCHANGED dvars
    /\ UNCHANGED uvars
    /\ UNCHANGED tvars

FileSetLocation(p) ==
    /\ file.some
    /\ \E o \in FsAnswers :
          \E r \in {File_set_location(file, p, o.mk, o.mv)} :
             /\ file' = r.file
             /\ last' = Call("File::set_location", r.ret, r.fs)
    /\ UNCHANGED dir
    /\ UNCHANGED dvars
    /\ UNCHANGED uvars
    /\ UNCHANGED tvars

(***************************************************************************)
(* Directory::new(path) and Directory::with_capacity(path, cap): panic on *)
(* a relative path.                                                        *)
(***************************************************************************)
DirectoryNew(p) ==
    /\ IF is_absolute(p)
       THEN dir' = Directory(p, <<>>) /\ last' = Call("Directory::new", "Ok", <<>>)
       ELSE dir' = dir /\ last' = Call("Directory::new", "panic", <<>>)
    /\ UNCHANGED file
    /\ UNCHANGED dvars
    /\ UNCHANGED uvars
    /\ UNCHANGED tvars

(***************************************************************************)
(* Directory::add_file(file): a File of the caller moves into the         *)
(* Directory.                                                              *)
(***************************************************************************)
AddFile(f) ==
    /\ dir.some
    /\ Len(dir.files) < MaxFiles
    /\ dir' = [dir EXCEPT !.files = Append(@, f)]
    /\ last' = Call("Directory::add_file", "Ok", <<>>)
    /\ UNCHANGED file
    /\ UNCHANGED dvars
    /\ UNCHANGED uvars
    /\ UNCHANGED tvars

(***************************************************************************)
(* Directory::add_files(files).                                            *)
(***************************************************************************)
AddFiles(fs) ==
    /\ dir.some
    /\ Len(dir.files) + Len(fs) <= MaxFiles
    /\ dir' = [dir EXCEPT !.files = @ \o fs]
    /\ last' = Call("Directory::add_files", "Ok", <<>>)
    /\ UNCHANGED file
    /\ UNCHANGED dvars
    /\ UNCHANGED uvars
    /\ UNCHANGED tvars

DirRename(name) ==
    /\ dir.some
    /\ \E o \in Outcomes(Len(dir.files)) :
          \E r \in {Directory_rename(dir, name, o.mkd, o.outs)} :
             /\ Fits(r.dir)
             /\ dir' = r.dir
             /\ last' = Call("Directory::rename", r.ret, r.fs)
    /\ UNCHANGED file
    /\ UNCHANGED dvars
    /\ UNCHANGED uvars
    /\ UNCHANGED tvars

DirSetLocation(p) ==
    /\ dir.some
    /\ \E o \in Outcomes(Len(dir.files)) :
          \E r \in {Directory_set_location(dir, p, o.mkd, o.outs)} :
             /\ Fits(r.dir)
             /\ dir' = r.dir
             /\ last' = Call("Directory::set_location", r.ret, r.fs)
    /\ UNCHANGED file
    /\ UNCHANGED dvars
    /\ UNCHANGED uvars
    /\ UNCHANGED tvars

(***************************************************************************)
(* No File and no Directory yet; the decoder is at rest.                  *)
(***************************************************************************)
InitFiles ==
    /\ input = <<>>
    /\ ioFail = FALSE
    /\ pos = 0
    /\ stack = <<>>
    /\ result = ResOk(<<>>)
    /\ file = NoFile
    /\ dir = NoDirectory
    /\ last = NoCall
    /\ os = "linux"
    /\ path = <<>>
    /\ clean = NotCalled
    /\ torrent = NoTorrent

(***************************************************************************)
(* A behaviour is the life of one File the caller holds, or the life of   *)
(* one Directory and the Files handed to it.                               *)
(***************************************************************************)
NextFiles ==
    \/ \E p \in PathArgs : ~dir.some /\ FileNew(p)
    \/ \E d \in DictArgs : \E dl \in DownloadDirs : ~dir.some /\ FileFromDict(d, dl)
    \/ \E st \in Settable : ~dir.some /\ FileSetStatus(st)
    \/ \E p \in PathArgs : ~dir.some /\ FileSetLocation(p)
    \/ \E p \in DirArgs : ~file.some /\ DirectoryNew(p)
    \/ \E f \in HeldFiles : ~file.some /\ AddFile(f)
    \/ \E fs \in SeqsUpTo(HeldFiles, MaxFiles) : ~file.some /\ AddFiles(fs)
    \/ \E name \in NameArgs : ~file.some /\ DirRename(name)
    \/ \E p \in DirArgs : ~file.some /\ DirSetLocation(p)

SpecFiles == InitFiles /\ [][NextFiles]_vars

(***************************************************************************)
(* Calls of sanitize_path: the bytes of a path component, valid and       *)
(* invalid ones, up to MaxName of them, on each target.                   *)
(***************************************************************************)
Platforms == {"linux", "macos", "windows"}

NameBytes == {NUL, Slash, Colon, ByteA}

SanitizePath(p) ==
    /\ path' = p
    /\ clean' = sanitize_path(os, p)
    /\ UNCHANGED os
    /\ UNCHANGED dvars
    /\ UNCHANGED fvars
    /\ UNCHANGED tvars

InitSanitize ==
    /\ input = <<>>
    /\ ioFail = FALSE
    /\ pos = 0
    /\ stack = <<>>
    /\ result = ResOk(<<>>)
    /\ file = NoFile
    /\ dir = NoDirectory
    /\ last = NoCall
    /\ os \in Platforms
    /\ path = <<>>
    /\ clean = NotCalled
    /\ torrent = NoTorrent

NextSanitize == \E p \in SeqsUpTo(NameBytes, MaxName) : SanitizePath(p)

SpecSanitize == InitSanitize /\ [][NextSanitize]_vars

(***************************************************************************)
(* Returns of the decode handed to Torrent::new: a torrent of one file    *)
(* with a pieces string of every length up to one byte more than          *)
(* MaxPieces pieces, and torrents with an entry missing, added or of      *)
(* another type; the bytes read are those of the tree.                    *)
(***************************************************************************)
MapOf(P) == [k \in {p[1] : p \in P} |-> (CHOOSE p \in P : p[1] = k)[2]]

Without(d, k) == [x \in (DOMAIN d) \ {k} |-> d[x]]

PieceData(len, seed) == [i \in 1..len |-> (seed * i) % 256]

PiecesArgs == {BString(PieceData(len, seed)) :
                  len \in 1..(split_len * MaxPieces + 1), seed \in {1, 37}}

InfoOf(p) ==
    MapOf({<<KeyPieceLength, BInt(1)>>, <<KeyPieces, p>>,
           <<KeyName, BString(<<ByteA>>)>>, <<KeyLength, BInt(1)>>})

TopOf(info) ==
    MapOf({<<KeyAnnounce, BString(<<ByteT>>)>>, <<KeyCreationDate, BInt(0)>>,
           <<KeyInfo, BDict(info)>>})

FullPieces == BString(PieceData(split_len * MaxPieces, 1))

FileEntry == BDict(MapOf({<<KeyLength, BInt(1)>>,
                          <<KeyPath, BList(<<BString(<<ByteA>>), BString(<<ByteB>>)>>)>>}))

InfoVariants ==
    {Without(InfoOf(FullPieces), k) : k \in {KeyPieceLength, KeyPieces, KeyName, KeyLength}}
    \cup {Insert(InfoOf(FullPieces), KeyPieces, BInt(0)),
          Insert(InfoOf(FullPieces), KeyPrivate, BInt(1)),
          Insert(InfoOf(FullPieces), KeyMd5sum, BString(<<ByteA>>)),
          Insert(InfoOf(FullPieces), KeyFiles, BList(<<FileEntry>>)),
          Insert(InfoOf(FullPieces), KeyFiles, BList(<<BInt(0)>>))}

TopVariants ==
    {Without(TopOf(InfoOf(FullPieces)), k) : k \in {KeyAnnounce, KeyCreationDate, KeyInfo}}
    \cup {Insert(TopOf(InfoOf(FullPieces)), KeyAnnounceList, l) :
             l \in {BList(<<BList(<<BString(<<ByteT>>)>>)>>), BList(<<>>), BList(<<BInt(0)>>),
                    BInt(0)}}
    \cup {Insert(TopOf(InfoOf(FullPieces)), KeyComment, c) :
             c \in {BString(<<ByteA>>), BString(<<255>>)}}
    \cup {Insert(TopOf(InfoOf(FullPieces)), KeyInfo, BInt(0))}

TorrentTrees ==
    {TopOf(InfoOf(p)) : p \in PiecesArgs} \cup {TopOf(i) : i \in InfoVariants} \cup TopVariants

DecodeReturns ==
    {[input |-> Encode(BDict(t)), result |-> ResOk(<<BDict(t)>>)] : t \in TorrentTrees}
    \cup {[input |-> <<>>, result |-> ResOk(<<>>)],
          [input |-> Encode(BInt(0)), result |-> ResOk(<<BInt(0)>>)],
          [input |-> <<ByteE>>, result |-> ResErr(ErrOther("Parse error"))]}

TorrentNew ==
    /\ Done
    /\ ~torrent.called
    /\ torrent' = Torrent_new(result)
    /\ UNCHANGED dvars
    /\ UNCHANGED fvars
    /\ UNCHANGED uvars

InitTorrent ==
    /\ \E r \in DecodeReturns :
          /\ input = r.input
          /\ result = r.result
    /\ ioFail = FALSE
    /\ pos = Len(input)
    /\ stack = <<>>
    /\ file = NoFile
    /\ dir = NoDirectory
    /\ last = NoCall
    /\ os = "linux"
    /\ path = <<>>
    /\ clean = NotCalled
    /\ torrent = NoTorrent

NextTorrent == TorrentNew

SpecTorrent == InitTorrent /\ [][NextTorrent]_vars

(***************************************************************************)
(* Helpers of the properties: the literal of a leading integer node, the  *)
(* length prefix of a leading string node, and their decimal values.      *)
(***************************************************************************)
RECURSIVE DigitsVal(_)
DigitsVal(d) == IF d = <<>> THEN 0 ELSE 10 * DigitsVal(SubSeq(d, 1, Len(d) - 1)) + (d[Len(d)] - Zero)

FirstOf(s, b) ==
    IF \E i \in 1..Len(s) : s[i] = b
    THEN CHOOSE i \in 1..Len(s) : s[i] = b /\ \A j \in 1..(i - 1) : s[j] # b
    ELSE Len(s) + 1

AllDigits(d) == \A i \in 1..Len(d) : d[i] \in Digits

Lit == SubSeq(input, 2, FirstOf(input, ByteE) - 1)
LitClosed == FirstOf(input, ByteE) <= Len(input)
Magnitude(l) == IF l # <<>> /\ l[1] = Minus THEN Tail(l) ELSE l

Canonical(l) ==
    \/ l = <<Zero>>
    \/ /\ Magnitude(l) # <<>>
       /\ Magnitude(l)[1] \in One..Nine
       /\ AllDigits(Magnitude(l))

LitVal(l) == IF l # <<>> /\ l[1] = Minus THEN -DigitsVal(Magnitude(l)) ELSE DigitsVal(l)

StartsWith(b) == Len(input) >= 1 /\ input[1] = b

(***************************************************************************)
(* C1 (as claimed): for every Value v, decoding encode(v), ended by the   *)
(* end of the source or by the NUL terminator, returns exactly <<v>>.     *)
(***************************************************************************)
C1_RoundTrip ==
    (Done /\ ~ioFail) =>
        \A p \in EncTable :
            (input = p[1] \/ input = p[1] \o <<NUL>>) => result = ResOk(<<p[2]>>)

(***************************************************************************)
(* C2 (as claimed): decode_all returns success only from a read made      *)
(* where a new top-level value is expected, and a read that finds the     *)
(* source exhausted inside a list or a dictionary (where an element, a    *)
(* key or a value is expected) ends decode_all with an error, never with  *)
(* a successful sequence.                                                  *)
(***************************************************************************)
C2_TruncatedContainerFails ==
    [][/\ (result.status = "running" /\ result'.status = "Ok") => Top(stack).fn = "new"
       /\ (/\ result.status = "running"
           /\ Top(stack).fn \in {"list", "dict"}
           /\ pos = Len(input)
           /\ result'.status # "running") => result'.status = "Err"]_vars

(***************************************************************************)
(* C3: in every activation of Benc::dict the entries held are below or at *)
(* the previous key, a key waiting for its value is above every entry,    *)
(* and an insertion adds one entry and leaves the earlier ones alone.     *)
(***************************************************************************)
DictFrameOrdered(f) ==
    /\ \A k \in DOMAIN f.dict : k = f.prev_key \/ VecLt(k, f.prev_key)
    /\ f.at = "val" => /\ f.key = f.prev_key
                       /\ f.key \notin DOMAIN f.dict
                       /\ \A k \in DOMAIN f.dict : VecLt(k, f.key)
    /\ f.at = "key" => (f.dict = EmptyMap <=> f.prev_key = <<>>)

InsertAddsOne(f, g) ==
    (f.fn = "dict" /\ f.at = "val" /\ g.fn = "dict" /\ g.at = "key") =>
        /\ Cardinality(DOMAIN g.dict) = Cardinality(DOMAIN f.dict) + 1
        /\ \A k \in DOMAIN f.dict : g.dict[k] = f.dict[k]

C3_DictKeysStrictlyIncreasing ==
    /\ [](\A i \in 1..Len(stack) : stack[i].fn = "dict" => DictFrameOrdered(stack[i]))
    /\ [][\A i \in 1..Len(stack) : i <= Len(stack') => InsertAddsOne(stack[i], stack'[i])]_vars

C3_Witness ==
    /\ result = ResErr(ErrOther("Invalid dict bencoding"))
    /\ input = WireDict(<<BString(<<ByteA>>), BInt(0), BString(<<ByteA>>), BInt(0)>>)

(***************************************************************************)
(* C4: when the input starts with an integer node, the literal between    *)
(* 'i' and the first 'e' is accepted only in canonical form ("0", or an   *)
(* optional '-', a digit 1-9, then digits): any other literal, a missing  *)
(* 'e' included, makes the decode fail, and the value that the integer    *)
(* sub-parser hands to Benc::new is the integer the literal denotes.      *)
(***************************************************************************)
C4_CanonicalIntOnly ==
    StartsWith(ByteI) =>
        /\ (Done /\ ~(Canonical(Lit) /\ LitClosed)) => result.status = "Err"
        /\ (Len(stack) >= 1 /\ stack[1].ast # <<>>) =>
               (Canonical(Lit) /\ LitClosed /\ stack[1].ast[1] = BInt(LitVal(Lit)))
        /\ result.status = "Ok" =>
               (Canonical(Lit) /\ LitClosed /\ result.ast # <<>>
                  /\ result.ast[1] = BInt(LitVal(Lit)))

C4_Witness ==
    /\ input = <<ByteI, Minus, Zero, ByteE>>
    /\ result = ResErr(ErrOther("Invalid int bencoding"))

(***************************************************************************)
(* C5: the accumulator of every activation of Benc::int stays within      *)
(* 0..IntMax, and a canonical literal whose value is outside              *)
(* IntMin..IntMax ends the decode with the error "Integer overflow",      *)
(* raised on reading the first digit at which the accumulated magnitude   *)
(* exceeds IntMax and not before: no value is returned for it.            *)
(***************************************************************************)
OverflowAt(d) == CHOOSE i \in 1..Len(d) :
                     /\ DigitsVal(SubSeq(d, 1, i)) > IntMax
                     /\ \A j \in 1..(i - 1) : DigitsVal(SubSeq(d, 1, j)) <= IntMax

C5_IntOverflowFails ==
    /\ \A i \in 1..Len(stack) : stack[i].fn = "int" => stack[i].num \in 0..IntMax
    /\ (StartsWith(ByteI) /\ Canonical(Lit) /\ LitClosed /\ LitVal(Lit) \notin IntMin..IntMax) =>
           LET at == 1 + (Len(Lit) - Len(Magnitude(Lit))) + OverflowAt(Magnitude(Lit))
           IN /\ pos < at => ~Done
              /\ pos >= at => (pos = at /\ result = ResErr(ErrOther("Integer overflow")))

C5_Witness ==
    /\ input = <<ByteI>> \o IntLit(IntMax + 1) \o <<ByteE>>
    /\ result = ResErr(ErrOther("Integer overflow"))

(***************************************************************************)
(* C6 (as claimed): for every n of IntMin..IntMax, decoding 'i', the      *)
(* canonical decimal of n, 'e' succeeds and yields Integer(n).            *)
(***************************************************************************)
C6_EveryI64Decodes ==
    \A n \in IntMin..IntMax :
        (Done /\ ~ioFail /\ input = <<ByteI>> \o IntLit(n) \o <<ByteE>>) =>
            result = ResOk(<<BInt(n)>>)

(***************************************************************************)
(* C7: when the input starts with a string node whose length prefix has   *)
(* the value n >= 1 (n within usize), then at the moment n bytes after    *)
(* the ':' have been consumed Benc::new holds exactly one value, the      *)
(* ByteString of those n bytes verbatim, whatever they are; the decode    *)
(* does not end before that moment when the source has the n bytes, and   *)
(* it fails when the source has fewer than n bytes after the ':'.         *)
(***************************************************************************)
Prefix == SubSeq(input, 1, FirstOf(input, Colon) - 1)
PrefixClosed == FirstOf(input, Colon) <= Len(input)
HasLength(n) == /\ Len(input) >= 1 /\ input[1] \in Digits
                /\ PrefixClosed /\ AllDigits(Prefix)
                /\ DigitsVal(Prefix) = n
Body(n) == SubSeq(input, Len(Prefix) + 2, Len(Prefix) + 1 + n)

BodyEnd(n) == Len(Prefix) + 1 + n

RECURSIVE NoEmptyString(_)
NoEmptyString(v) ==
    IF v.t = "String" THEN v.str # <<>>
    ELSE IF v.t = "List" THEN \A i \in 1..Len(v.list) : NoEmptyString(v.list[i])
    ELSE IF v.t = "Dict" THEN \A k \in DOMAIN v.dict : k # <<>> /\ NoEmptyString(v.dict[k])
    ELSE TRUE

ZeroLengthAtColon ==
    /\ result.status = "running"
    /\ Top(stack).fn = "string" /\ Top(stack).at = "len" /\ Top(stack).len = 0
    /\ pos < Len(input) /\ input[pos + 1] = Colon

C8_NoEmptyByteString ==
    /\ [](/\ \A i \in 1..Len(stack) :
               /\ \A j \in 1..Len(stack[i].ast) : NoEmptyString(stack[i].ast[j])
               /\ NoEmptyString(BList(stack[i].list))
               /\ NoEmptyString(BDict(stack[i].dict))
               /\ (stack[i].fn = "dict" /\ stack[i].at = "val") => stack[i].key # <<>>
           /\ \A j \in 1..Len(result.ast) : NoEmptyString(result.ast[j])
           /\ (HasLength(0) /\ pos > Len(Prefix)) =>
                  result = ResErr(ErrOther("Invalid string bencoding")))
    /\ [][ZeroLengthAtColon => result' = ResErr(ErrOther("Invalid string bencoding"))]_vars

C8_Witness ==
    /\ input = <<Zero, Colon>>
    /\ result = ResErr(ErrOther("Invalid string bencoding"))

(***************************************************************************)
(* C9 (as claimed): for an input that is the concatenation of k >= 0      *)
(* well-formed bencoded values (the encodings of values without an empty  *)
(* ByteString), decode_all returns exactly those k values, in order.      *)
(***************************************************************************)
WellFormed == {v \in Few \cup {BInt(IntMin)} : NoEmptyString(v)}

C9_ConcatenationDecodes ==
    (Done /\ ~ioFail) =>
        \A l \in SeqsUpTo(WellFormed, MaxTop) : input = EncodeAll(l) => result = ResOk(l)

(***************************************************************************)
(* C10: an error returned by decode_all is an Io error or an Other        *)
(* (malformed) error, never Delim and never EndOfFile.                    *)
(***************************************************************************)
C10_OnlyIoOrOther ==
    /\ result.status = "Err" => result.err.kind \in {"Io", "Other"}
    /\ result.status # "Err" => result.err = NoError

C10_Witness ==
    /\ input = <<ByteL, ByteE, ByteE>>
    /\ result = ResErr(ErrOther("Parse error"))

(***************************************************************************)
(* C11: a read failure reported by the source, at whatever read position  *)
(* and nesting depth the decoder stands, ends decode_all with the Io      *)
(* error: the step that performs the failing read sets the result to      *)
(* Err(Io), never to Ok and never to an Other error.  The source fails at *)
(* its end, and the inputs are closed under prefixes, so the failing read *)
(* falls on every read position of every input.                           *)
(***************************************************************************)
FailingRead == ~Done /\ ioFail /\ pos = Len(input)

C11_ReadFailureIsIo ==
    [][FailingRead => result' = ResErr(ErrIo)]_vars

C11_Witness ==
    /\ ioFail
    /\ input = <<ByteL, ByteD, One, Colon>>
    /\ pos = Len(input)
    /\ result = ResErr(ErrIo)

(***************************************************************************)
(* C12: no partial result.  A List or a Dictionary reaches its caller     *)
(* only in the step that reads its own closing 'e', whole, and a          *)
(* dictionary only when no key is waiting for a value; an entry is made   *)
(* of the waiting key and the value just returned; the activations below  *)
(* the running one are left alone; a successful result is the top-level   *)
(* sequence as it stood, so nothing of an open container is in it.  End   *)
(* to end: when the input is a prefix of the encoding of a sequence of    *)
(* values, a successful result is a prefix of that sequence, every value  *)
(* of which lies whole in the input.                                       *)
(***************************************************************************)
IsPrefix(a, b) == Len(a) <= Len(b) /\ \A i \in 1..Len(a) : a[i] = b[i]

Received(f, g, v) ==
    IF f.fn = "new" THEN g = [f EXCEPT !.ast = Append(f.ast, v)]
    ELSE IF f.fn = "list" THEN g = [f EXCEPT !.list = Append(f.list, v)]
    ELSE IF f.at = "key" THEN g.at = "val" /\ g.key = v.str /\ g.dict = f.dict
    ELSE g.at = "key" /\ g.dict = Insert(f.dict, f.key, v) /\ f.key \notin DOMAIN f.dict

ReadsE == pos < Len(input) /\ input[pos + 1] = ByteE

ReturnsWhole ==
    LET n == Len(stack')
        c == Top(stack)
    IN /\ \A i \in 1..Len(stack') :
             (i < Len(stack) /\ stack'[i] # stack[i]) => i = n /\ n = Len(stack) - 1
       /\ (result'.status = "running" /\ n = Len(stack) - 1) =>
             /\ c.fn = "list" => ReadsE /\ Received(stack[n], stack'[n], BList(c.list))
             /\ c.fn = "dict" => /\ ReadsE /\ c.at = "key"
                                 /\ Received(stack[n], stack'[n], BDict(c.dict))
       /\ result'.status = "Ok" => result'.ast = stack[1].ast

PartTable == {<<p[1], <<p[2]>>>> : p \in EncTable}
             \cup {<<EncodeAll(l), l>> : l \in SeqsUpTo(Few, MaxTop)}

OnlyWholeValues ==
    (Done /\ result.status = "Ok") =>
        \A p \in PartTable :
            IsPrefix(input, p[1]) =>
                /\ IsPrefix(result.ast, p[2])
                /\ IsPrefix(EncodeAll(result.ast), input)

C12_NoPartialResult ==
    /\ []OnlyWholeValues
    /\ [][ReturnsWhole]_vars

C12_Witness ==
    /\ input = <<ByteL, ByteE, ByteD, One, Colon, ByteB, ByteI, Zero, ByteE>>
    /\ ~ioFail
    /\ pos = Len(input)
    /\ result = ResOk(<<BList(<<>>)>>)

(***************************************************************************)
(* C13: the bytes encode emits for a Dictionary carry its keys in         *)
(* ascending raw byte order, whatever the mapping: the key strings found  *)
(* in the emitted bytes are strictly increasing, {b:1, a:2} is emitted as *)
(* d1:ai2e1:bi1ee, and the decoder, which refuses a key that is not above *)
(* the previous one, reads the emitted bytes back as the same mapping.    *)
(* A mapping is a function of its keys, so two mappings with the same     *)
(* entries are one value.                                                  *)
(***************************************************************************)
Example13 == [k \in {<<ByteB>>, <<ByteA>>} |-> IF k = <<ByteB>> THEN BInt(1) ELSE BInt(2)]

Wire13 == <<ByteD, One, Colon, ByteA, ByteI, One + 1, ByteE,
            One, Colon, ByteB, ByteI, One, ByteE, ByteE>>

SortedDicts == {v \in Values \cup PairDicts : v.t = "Dict" /\ NoEmptyString(v)}

EmitsAscending(v) ==
    \A k \in DOMAIN v.dict :
        LET below == {j \in DOMAIN v.dict : VecLt(j, k)}
            lead == <<ByteD>> \o EncodeEntries(v.dict, below) \o Encode(BString(k))
        IN IsPrefix(lead, Encode(v))

ExampleEmitted == Encode(BDict(Example13)) = Wire13

AllAscending == \A v \in SortedDicts : EmitsAscending(v)

DictTable == {<<Encode(v), v>> : v \in SortedDicts}

C13_DictKeysEmittedAscending ==
    /\ ExampleEmitted
    /\ AllAscending
    /\ (Done /\ ~ioFail) =>
          \A p \in DictTable : input = p[1] => result = ResOk(<<p[2]>>)

C13_Witness ==
    /\ input = Wire13
    /\ ~ioFail
    /\ result = ResOk(<<BDict(Example13)>>)

(***************************************************************************)
(* C14: a NUL byte read where a new top-level value is expected ends      *)
(* decode_all as the end of the input does at that point: the result is   *)
(* the success holding the values decoded so far, the NUL is the last     *)
(* byte read and no later step reads on, so what follows the NUL (even a  *)
(* failing source) has no effect.                                          *)
(***************************************************************************)
NulAtTop ==
    /\ ~Done
    /\ Top(stack).fn = "new"
    /\ pos < Len(input)
    /\ input[pos + 1] = NUL

AtExhaustion == NewCatch(stack, node([k |-> "none", c |-> 0], NoDelim)).result

NulEndsCleanly ==
    /\ NulAtTop => /\ result' = AtExhaustion
                   /\ result' = ResOk(stack[1].ast)
                   /\ pos' = pos + 1
    /\ Done => pos' = pos /\ result' = result

SuffixIgnored ==
    Done => \A p \in NulTable : input = p[1] => result = ResOk(p[2]) /\ pos = Len(input) - 1

C14_NulEndsDecodeAll ==
    /\ []SuffixIgnored
    /\ [][NulEndsCleanly]_vars

C14_Witness ==
    /\ input = <<ByteL, ByteE, NUL, ByteI>>
    /\ ioFail
    /\ pos = 3
    /\ result = ResOk(<<BList(<<>>)>>)

(***************************************************************************)
(* C15: whatever calls were made, the path of the File the caller holds,  *)
(* the path of the Directory and the path of every File of the Directory  *)
(* are absolute; File::new makes no File of a relative path.              *)
(***************************************************************************)
C15_PathsAbsolute ==
    /\ file.some => is_absolute(file.path)
    /\ dir.some => /\ is_absolute(dir.path)
                   /\ \A i \in 1..Len(dir.files) : is_absolute(dir.files[i].path)
    /\ (last.op = "File::new" /\ last.ret = "Ok") => file.some
    /\ (last.op = "Directory::new" /\ last.ret = "Ok") => dir.some

C15_Witness ==
    /\ dir = Directory(<<Sep, "m">>, <<File(<<Sep, "m", Sep, "b">>, NotCreated)>>)
    /\ last.op = "Directory::rename"
    /\ last.ret = "Ok"

(***************************************************************************)
(* C16: File::set_location(p) with a relative p returns the InvalidInput  *)
(* error and leaves the File as it was (path and status), whatever its    *)
(* status, and calls nothing of the filesystem.                            *)
(***************************************************************************)
C16_RelativeLocationRejected ==
    [][\A p \in PathArgs :
          (~is_absolute(p) /\ FileSetLocation(p)) =>
              /\ last' = Call("File::set_location", "InvalidInput", <<>>)
              /\ file' = file]_vars

C16_Witness ==
    /\ file.some
    /\ file.status = Downloading
    /\ last = Call("File::set_location", "InvalidInput", <<>>)

(***************************************************************************)
(* C17: File::set_location(p) with an absolute p on a File that is        *)
(* NotCreated or Missing sets the path to p, returns Ok, leaves the       *)
(* status alone and calls nothing of the filesystem.                       *)
(***************************************************************************)
C17_UncreatedFileJustRepointed ==
    [][\A p \in PathArgs :
          (/\ is_absolute(p)
           /\ file.status.tag \in {"NotCreated", "Missing"}
           /\ FileSetLocation(p)) =>
              /\ last' = Call("File::set_location", "Ok", <<>>)
              /\ file' = [file EXCEPT !.path = p]]_vars

C17_Witness ==
    /\ file = File(<<Sep, "m">>, Missing(<<Sep, "a">>))
    /\ last = Call("File::set_location", "Ok", <<>>)

(***************************************************************************)
(* Path::strip_prefix as a path string: the components of p after those   *)
(* of base, joined by the separator.                                       *)
(***************************************************************************)
RECURSIVE Joined(_)
Joined(cs) ==
    IF cs = <<>> THEN <<>>
    ELSE IF Len(cs) = 1 THEN cs[1]
    ELSE cs[1] \o <<Sep>> \o Joined(Tail(cs))

RelativeTo(p, base) ==
    Joined(SubSeq(components(p), Len(components(base)) + 1, Len(components(p))))

(***************************************************************************)
(* C18 (as claimed): a Directory::set_location(dir) with an absolute dir  *)
(* other than the directory's path, when it returns Ok, has moved every   *)
(* file under the old path to dir joined with the file's path relative to *)
(* the old path, and has left the path of every other file as it was.    *)
(***************************************************************************)
Relocated(old, to, f, g) ==
    IF starts_with(f.path, old)
    THEN path_eq(g.path, join(to, RelativeTo(f.path, old)))
    ELSE g.path = f.path

C18_RelocatesFilesUnderOldPath ==
    [][\A p \in DirArgs :
          (/\ is_absolute(p)
           /\ ~path_eq(p, dir.path)
           /\ DirSetLocation(p)
           /\ last'.ret = "Ok") =>
              /\ Len(dir'.files) = Len(dir.files)
              /\ \A i \in 1..Len(dir.files) :
                    Relocated(dir.path, p, dir.files[i], dir'.files[i])]_vars

(***************************************************************************)
(* C19: Directory::set_location(dir) with a relative dir returns an error *)
(* and leaves the Directory as it was: its path, and the path and the     *)
(* status of every one of its files.                                       *)
(***************************************************************************)
C19_RelativeDirRejected ==
    [][\A p \in DirArgs :
          (~is_absolute(p) /\ DirSetLocation(p)) =>
              /\ last' = Call("Directory::set_location", "InvalidInput", <<>>)
              /\ dir' = dir]_vars

C19_Witness ==
    /\ dir.some
    /\ Len(dir.files) = MaxFiles
    /\ dir.files[1].status = Downloading
    /\ last = Call("Directory::set_location", "InvalidInput", <<>>)

C21_SanitizeRemovesInvalidBytes ==
    clean.called =>
        /\ clean.bytes = filter(os, path)
        /\ \A i \in 1..Len(clean.bytes) : valid_byte(os, clean.bytes[i])

(***************************************************************************)
(* C22: a node is dispatched on its first byte alone.  Where a node is    *)
(* expected (by Benc::new, by Benc::list, for a key or for a value of     *)
(* Benc::dict) and a byte is read, a digit starts the string sub-parser,  *)
(* 'i' the integer, 'l' the list and 'd' the dictionary sub-parser,       *)
(* whatever the caller; any other byte that is neither NUL nor the        *)
(* delimiter the caller expects ends the decode with the error "Parse     *)
(* error", a stray 'e' at top level or in value position included.        *)
(***************************************************************************)
ExpectsNode == ~Done /\ Top(stack).fn \in {"new", "list", "dict"} /\ pos < Len(input)

ExpectsDelim == Top(stack).fn = "list" \/ (Top(stack).fn = "dict" /\ Top(stack).at = "key")

Starts(fn) ==
    /\ result' = Running
    /\ Len(stack') = Len(stack) + 1
    /\ SubSeq(stack', 1, Len(stack)) = stack
    /\ Top(stack').fn = fn

DispatchedOnFirstByte ==
    ExpectsNode =>
        LET c == input[pos + 1]
        IN IF c \in Zero..Nine THEN Starts("string")
           ELSE IF c = ByteI THEN Starts("int")
           ELSE IF c = ByteL THEN Starts("list")
           ELSE IF c = ByteD THEN Starts("dict")
           ELSE IF c = NUL \/ (c = ByteE /\ ExpectsDelim) THEN TRUE
           ELSE result' = ResErr(ErrOther("Parse error"))

C22_DispatchOnFirstByte == [][DispatchedOnFirstByte]_vars

C22_Witness ==
    /\ input = <<ByteD, One, Colon, ByteA, ByteE>>
    /\ pos = Len(input)
    /\ result = ResErr(ErrOther("Parse error"))

(***************************************************************************)
(* C23: only a ByteString is accepted as a key.  While a node that is an  *)
(* integer, a list or a dictionary is read in key position, the           *)
(* dictionary waits for its key and the decode never comes back to it:    *)
(* the step that completes the node ends the decode.  For a dictionary    *)
(* that starts with such a node k, the decode fails with "Expected        *)
(* BString key for dictionary" right behind the last byte of k, so that   *)
(* no byte of the would-be value is read.                                  *)
(***************************************************************************)
KeyIsNoString(i) ==
    /\ stack[i].fn = "dict" /\ stack[i].at = "key"
    /\ i < Len(stack)
    /\ stack[i + 1].fn # "string"

NeverAccepted ==
    \A i \in 1..Len(stack) :
        (KeyIsNoString(i) /\ result'.status = "running") =>
            /\ Len(stack') > i
            /\ stack'[i] = stack[i]
            /\ stack'[i + 1].fn = stack[i + 1].fn

FailsBehindKey ==
    \A p \in KeyTable :
        LET end == 1 + Len(Encode(p[2]))
        IN IsPrefix(SubSeq(p[1], 1, end), input) =>
               /\ pos <= end
               /\ pos < end => ~Done
               /\ pos = end => result = ResErr(ErrOther("Expected BString key for dictionary"))

C23_OnlyByteStringKeys ==
    /\ []FailsBehindKey
    /\ [][NeverAccepted]_vars

C23_Witness ==
    /\ input = WireDict(<<BList(<<BInt(0)>>), BString(<<ByteA>>)>>)
    /\ pos = 6
    /\ result = ResErr(ErrOther("Expected BString key for dictionary"))

(***************************************************************************)
(* C24: the key-ordering check is scoped to one dictionary.  An           *)
(* activation of Benc::dict starts with an empty previous key; the        *)
(* previous key of an activation changes only when a string is returned   *)
(* to that activation in key position, and then it becomes that string.   *)
(* End to end, for d k1 d n i0e e k2 i0e e: the inner key n is accepted   *)
(* whatever k1 is (above, equal or below), and k2 is compared with k1     *)
(* alone, whatever n was.                                                  *)
(***************************************************************************)
StringReturned == Append(Top(stack).buf, input[pos + 1])

OwnKeysOnly ==
    /\ \A i \in 1..Len(stack') :
          (i > Len(stack) /\ stack'[i].fn = "dict") =>
              stack'[i].prev_key = <<>> /\ stack'[i].dict = EmptyMap
    /\ \A i \in 1..Len(stack) :
          (/\ i <= Len(stack')
           /\ stack[i].fn = "dict"
           /\ stack'[i].prev_key # stack[i].prev_key) =>
              /\ Len(stack) = i + 1 /\ Len(stack') = i
              /\ stack[i].at = "key"
              /\ Top(stack).fn = "string"
              /\ pos < Len(input)
              /\ stack'[i].prev_key = StringReturned
              /\ VecGt(StringReturned, stack[i].prev_key)

ScopedToOneDict ==
    (Done /\ ~ioFail) =>
        \A p \in ScopeTable :
            input = p[1] =>
                IF VecGt(p[4], p[2])
                THEN result = ResOk(<<BDict([k \in {p[2], p[4]} |->
                                         IF k = p[2] THEN Inner(p[3]) ELSE BInt(0)])>>)
                ELSE result = ResErr(ErrOther("Invalid dict bencoding"))

C24_KeyOrderScopedToOneDict ==
    /\ []ScopedToOneDict
    /\ [][OwnKeysOnly]_vars

C24_Witness ==
    /\ input = WireDict(<<BString(<<ByteA, ByteA>>), Inner(<<ByteA>>), BString(<<ByteB>>), BInt(0)>>)
    /\ ~ioFail
    /\ result.status = "Ok"

(***************************************************************************)
(* C25: the length prefix of a string is read as a plain decimal number.  *)
(* Zeros written before the length are accepted and change nothing: the   *)
(* bytes 02:hi decode to the string hi, as 2:hi does, and while the       *)
(* prefix is read the length held is the decimal value of the digits read *)
(* so far.                                                                 *)
(***************************************************************************)
PaddedDecodesAlike ==
    (Done /\ ~ioFail) =>
        \A p \in PaddedTable : input = p[1] => result = ResOk(<<BString(p[2])>>)

PrefixIsDecimal ==
    (/\ Len(stack) = 2
     /\ Top(stack).fn = "string" /\ Top(stack).at = "len"
     /\ stack[1].ast = <<>>) =>
        Top(stack).len = DigitsVal(SubSeq(input, 1, pos))

C25_LeadingZerosInLength ==
    /\ PaddedDecodesAlike
    /\ PrefixIsDecimal

C25_Witness ==
    /\ input = <<Zero, Zero + 2, Colon, ByteH, ByteI>>
    /\ ~ioFail
    /\ result = ResOk(<<BString(<<ByteH, ByteI>>)>>)

(***************************************************************************)
(* C26: the active activations of Benc::list and Benc::dict are the       *)
(* containers opened and not yet closed.  A step that goes on adds one    *)
(* exactly when it reads 'l' or 'd' where a node is expected, removes one *)
(* exactly when it reads the 'e' that a list or a dictionary (in key      *)
(* position) waits for, and leaves the number alone otherwise.  For an    *)
(* input made of 'l', 'd' and 'e' only every byte is such a byte, so the  *)
(* number is the count of 'l' and 'd' minus the count of 'e' in the bytes *)
(* consumed; and an input made of 'l' and 'd' only is read to its end,    *)
(* one activation deeper at each byte, and is not refused as malformed:   *)
(* nothing cuts the depth off.                                             *)
(***************************************************************************)
Containers(stk) == Cardinality({i \in 1..Len(stk) : stk[i].fn \in {"list", "dict"}})

CountOf(s, B) == Cardinality({i \in 1..Len(s) : s[i] \in B})

Opens == ExpectsNode /\ input[pos + 1] \in {ByteL, ByteD}

Closes ==
    /\ ~Done /\ pos < Len(input) /\ input[pos + 1] = ByteE
    /\ Top(stack).fn \in {"list", "dict"} /\ ExpectsDelim

DepthFollowsInput ==
    result'.status = "running" =>
        Containers(stack') = Containers(stack) + (IF Opens THEN 1 ELSE IF Closes THEN -1 ELSE 0)

DepthIsOpenCount ==
    /\ (~Done /\ CountOf(input, {ByteL, ByteD, ByteE}) = Len(input)) =>
           Containers(stack) = CountOf(SubSeq(input, 1, pos), {ByteL, ByteD})
                               - CountOf(SubSeq(input, 1, pos), {ByteE})
    /\ CountOf(input, {ByteL, ByteD}) = Len(input) =>
           /\ ~Done => Containers(stack) = pos
           /\ Done => /\ pos = Len(input)
                       /\ result.err.kind # "Other"

C26_DepthIsOpenContainers ==
    /\ []DepthIsOpenCount
    /\ [][DepthFollowsInput]_vars

C26_Witness ==
    /\ input = <<ByteL, ByteD, ByteL, ByteL>>
    /\ pos = Len(input)
    /\ ~Done
    /\ Containers(stack) = Len(input)

(***************************************************************************)
(* C27: decode_all terminates on every finite byte source.  Every step of *)
(* the decode (one iteration of the loop of Benc::new, of Benc::list, of  *)
(* Benc::dict, or of a loop of the string and integer sub-parsers)        *)
(* consumes one byte or ends the decode, a step that finds the source     *)
(* exhausted or failing ends it, and so every decode that keeps running   *)
(* ends, after at most one step more than the source has bytes.           *)
(***************************************************************************)
ConsumesOrReturns ==
    ~Done =>
        /\ pos' = pos + 1 \/ result'.status # "running"
        /\ pos >= Len(input) => result'.status # "running"
        /\ pos' \in pos..(pos + 1)

C27_DecodeTerminates ==
    /\ <>Done
    /\ [](pos <= Len(input))
    /\ [][ConsumesOrReturns]_vars

C27_Witness ==
    /\ input = <<ByteL, ByteE, ByteE, NUL>>
    /\ pos = 3
    /\ Done

(***************************************************************************)
(* C28: File::set_location(p) on a File that is neither NotCreated nor    *)
(* Missing, with a p that is absolute and has a parent that               *)
(* fs::create_dir_all makes, when fs::rename fails: the call returns that *)
(* Io error and the status becomes Missing carrying the path the File had *)
(* before the call, its last known location.                               *)
(***************************************************************************)
RenameFails(p) ==
    /\ file.some
    /\ file.status.tag \notin {"NotCreated", "Missing"}
    /\ is_absolute(p) /\ file_name(p)
    /\ \E r \in {File_set_location(file, p, TRUE, FALSE)} :
          /\ file' = r.file
          /\ last' = Call("File::set_location", r.ret, r.fs)
    /\ UNCHANGED <<dir, os, path, clean, torrent>>
    /\ UNCHANGED dvars

C28_FailedRenameMarksMissing ==
    [][\A p \in PathArgs :
          RenameFails(p) =>
              /\ last'.ret = "Io"
              /\ "rename" \in last'.fs
              /\ file'.status = Missing(file.path)]_vars

C28_Witness ==
    /\ file.some
    /\ file.status = Missing(<<Sep, "a">>)
    /\ file.path = <<Sep, "m">>
    /\ last = Call("File::set_location", "Io", <<"create_dir_all", "rename">>)

(***************************************************************************)
(* The path a path leads to: ".." leaves the directory reached so far,    *)
(* "." stays in it.                                                        *)
(***************************************************************************)
RECURSIVE Resolve(_, _)
Resolve(done, cs) ==
    IF cs = <<>> THEN done
    ELSE IF Head(cs) = <<".">> THEN Resolve(done, Tail(cs))
    ELSE IF Head(cs) = <<".", ".">>
    THEN Resolve(IF done = <<>> THEN <<>> ELSE SubSeq(done, 1, Len(done) - 1), Tail(cs))
    ELSE Resolve(Append(done, Head(cs)), Tail(cs))

Under(p, base) == IsPrefix(Resolve(<<>>, SplitFrom(base, <<>>)), Resolve(<<>>, SplitFrom(p, <<>>)))

(***************************************************************************)
(* C29 (as claimed): the path of a File made by File::from_dict has no    *)
(* "." and no ".." component behind the download directory it started     *)
(* from, and it leads to a place under that directory.                     *)
(***************************************************************************)
C29_FromDictStaysUnderDownloadDir ==
    [][\A d \in DictArgs : \A dl \in DownloadDirs :
          (FileFromDict(d, dl) /\ last'.ret = "Some") =>
              /\ \A i \in 1..Len(SplitFrom(file'.path, <<>>)) :
                    SplitFrom(file'.path, <<>>)[i] \notin {<<".">>, <<".", ".">>}
              /\ Under(file'.path, dl)]_vars

(***************************************************************************)
(* C30: Torrent::new fails when the length of the pieces string of the    *)
(* info dictionary is no multiple of 20.  When it succeeds, pieces has    *)
(* length / 20 entries, and entry i is 40 lower-case hexadecimal digits   *)
(* that spell the bytes 20 * i .. 20 * i + 19 of the string, in order;    *)
(* and it succeeds for the torrent of one file whose pieces string is a   *)
(* multiple of 20 long.                                                    *)
(***************************************************************************)
LowerHex == <<"0", "1", "2", "3", "4", "5", "6", "7", "8", "9", "a", "b", "c", "d", "e", "f">>

HexValue(ch) == (CHOOSE n \in 1..Len(LowerHex) : LowerHex[n] = ch) - 1

Spells(hex, data) ==
    /\ Len(hex) = 2 * Len(data)
    /\ \A j \in 1..Len(data) :
          /\ hex[2 * j - 1] \in {LowerHex[n] : n \in 1..Len(LowerHex)}
          /\ hex[2 * j] \in {LowerHex[n] : n \in 1..Len(LowerHex)}
          /\ 16 * HexValue(hex[2 * j - 1]) + HexValue(hex[2 * j]) = data[j]

HasPieces ==
    /\ result.status = "Ok" /\ result.ast # <<>> /\ result.ast[1].t = "Dict"
    /\ Has(result.ast[1].dict, KeyInfo, "Dict")
    /\ Has(result.ast[1].dict[KeyInfo].dict, KeyPieces, "String")

PiecesString == result.ast[1].dict[KeyInfo].dict[KeyPieces].str

C30_PiecesSplitInTwenties ==
    (torrent.called /\ HasPieces) =>
        /\ Len(PiecesString) % split_len # 0 => ~torrent.ok
        /\ torrent.ok =>
              /\ Len(torrent.pieces) * split_len = Len(PiecesString)
              /\ \A i \in 1..Len(torrent.pieces) :
                    Spells(torrent.pieces[i],
                           SubSeq(PiecesString, split_len * (i - 1) + 1, split_len * i))
        /\ (/\ Len(PiecesString) % split_len = 0
            /\ result.ast[1].dict = TopOf(InfoOf(BString(PiecesString)))) => torrent.ok

C30_Witness ==
    /\ torrent.called /\ torrent.ok
    /\ Len(torrent.pieces) = MaxPieces
    /\ torrent.pieces[1] # torrent.pieces[MaxPieces]
    /\ result.ast[1].dict = TopOf(InfoOf(BString(PieceData(split_len * MaxPieces, 37))))

====
